---- MODULE Spec2Model ----
(***************************************************************************)
(* The poll/diff/retain engine of Arbgoonio: services/scanner.py scan_loop *)
(* (seed, steady-state ticks, publish, status), api/polymarket_api.py      *)
(* (fetch_all_events, parse_prices), services/file_manager.py (the three   *)
(* JSON files) and main.py (the /fetch route and the file readers).        *)
(*                                                                         *)
(* A price is written as its decimal text in thousandths (400 is "0.40"); *)
(* the arithmetic on prices is that of Python's floats (binary64).         *)
(***************************************************************************)
EXTENDS Integers, Sequences, FiniteSets, TLC

\* ------------------------------------------------------------- bounds ---
\* time.sleep(SCAN_INTERVAL) calls in one run (each lets the clock advance).
MaxClock == 3
\* longest array / string in a raw outcomePrices payload.
MaxRawLen == 3

\* The longest list upstream holds and the largest of the small page sizes
\* when fetch_all_events is examined on its own.
MaxListed == 5
MaxSmallPage == 2
\* The most new moves of a tick when the sound trigger is examined on its
\* own.
MaxNewMoves == 2
\* The events on a page of the scanner's fetches (the model's scale of
\* page_size).
PagedBy == 1
\* The calls of the accessors a caller makes.
MaxCopies == 2

\* -------------------------------------------------- program constants ---
MAX_MOVES == 500
page_size == 100
max_retries == 3

\* Thread 0 runs start_scanner's scan_loop, thread 1 the scan_loop that a
\* /fetch request starts.
Threads == {0, 1}

EmptyMap == [x \in {} |-> x]

Min(a, b) == IF a < b THEN a ELSE b

\* ------------------------------------------------------------ floats ---
\* Python floats are IEEE 754 binary64. A finite float is held as its sign,
\* its 53-bit significand (hi: the upper 26 bits, lo: the lower 27) and the
\* exponent e of the significand's unit: the value is (hi * 2^27 + lo) * 2^e,
\* with 2^52 <= hi * 2^27 + lo < 2^53 unless the value is zero. nan is the
\* float nan. (Quotes are far from the overflow and underflow thresholds and
\* are not negative, so infinities, subnormals and -0.0 are not held.)
\*
\* The arithmetic works on wide non-negative integers: sequences of 9-bit
\* limbs, least significant first. The operations are functions, so that an
\* argument is evaluated once, before the function is applied.
Wide == Seq(0 .. 511)
Dbls == [k : {"fin", "nan"}, neg : BOOLEAN, hi : Nat, lo : Nat, e : Int]

WGet(w, i) == IF 1 <= i /\ i <= Len(w) THEN w[i] ELSE 0
WBit(w, i) == (WGet(w, (i \div 9) + 1) \div (2 ^ (i % 9))) % 2
\* The number of bits of w: the position of its highest 1, 0 for w = 0.
WBitLen(w) ==
    IF \A i \in 1 .. Len(w) : w[i] = 0 THEN 0
    ELSE CHOOSE n \in 1 .. (9 * Len(w)) :
             WBit(w, n - 1) = 1 /\ \A j \in n .. (9 * Len(w)) : WBit(w, j) = 0

\* w * 2^k and w div 2^k.
WShl ==
    [w \in Wide, k \in Nat |->
       [i \in 1 .. (Len(w) + (k \div 9) + 1) |->
          (WGet(w, i - (k \div 9)) % (2 ^ (9 - (k % 9)))) * (2 ^ (k % 9))
          + (WGet(w, i - (k \div 9) - 1) \div (2 ^ (9 - (k % 9))))] \o <<>>]
WShr ==
    [w \in Wide, k \in Nat |->
       [i \in 1 .. Len(w) |->
          (WGet(w, i + (k \div 9)) \div (2 ^ (k % 9)))
          + (WGet(w, i + (k \div 9) + 1) % (2 ^ (k % 9))) * (2 ^ (9 - (k % 9)))] \o <<>>]

\* x + y: the carry into limb i, and the sum.
RECURSIVE WCarry(_, _, _)
WCarry(x, y, i) ==
    IF i = 1 THEN 0 ELSE (WGet(x, i - 1) + WGet(y, i - 1) + WCarry(x, y, i - 1)) \div 512
WAdd ==
    [x \in Wide, y \in Wide |->
       [i \in 1 .. ((IF Len(x) > Len(y) THEN Len(x) ELSE Len(y)) + 1) |->
          (WGet(x, i) + WGet(y, i) + WCarry(x, y, i)) % 512] \o <<>>]

\* x - y for x >= y: the borrow from limb i, and the difference.
RECURSIVE WBorrow(_, _, _)
WBorrow(x, y, i) ==
    IF i = 1 THEN 0
    ELSE IF WGet(x, i - 1) - WGet(y, i - 1) - WBorrow(x, y, i - 1) < 0 THEN 1 ELSE 0
WSub ==
    [x \in Wide, y \in Wide |->
       [i \in 1 .. Len(x) |-> (WGet(x, i) - WGet(y, i) - WBorrow(x, y, i)) % 512] \o <<>>]

WLess(x, y) ==
    \E i \in 1 .. (Len(x) + Len(y)) :
        /\ WGet(x, i) < WGet(y, i)
        /\ \A j \in (i + 1) .. (Len(x) + Len(y)) : WGet(x, j) = WGet(y, j)

\* w * k for 0 < k < 2^20: the carry into limb i, and the product.
RECURSIVE WMulCarry(_, _, _)
WMulCarry(w, k, i) ==
    IF i = 1 THEN 0 ELSE (WGet(w, i - 1) * k + WMulCarry(w, k, i - 1)) \div 512
WMul ==
    [w \in Wide, k \in Nat |->
       [i \in 1 .. (Len(w) + 3) |-> (WGet(w, i) * k + WMulCarry(w, k, i)) % 512] \o <<>>]

\* w div d and w mod d for 0 < d < 2^20: the remainder of the limbs above
\* limb i, and the quotient.
RECURSIVE WRem(_, _, _)
WRem(w, d, i) == IF i >= Len(w) THEN 0 ELSE (WRem(w, d, i + 1) * 512 + w[i + 1]) % d
WDiv ==
    [w \in Wide, d \in Nat |->
       [i \in 1 .. Len(w) |-> (WRem(w, d, i) * 512 + w[i]) \div d] \o <<>>]

DblNaN == [k |-> "nan", neg |-> FALSE, hi |-> 0, lo |-> 0, e |-> 0]
DblZero == [k |-> "fin", neg |-> FALSE, hi |-> 0, lo |-> 0, e |-> 0]
IsZero(d) == d.k = "fin" /\ d.hi = 0 /\ d.lo = 0

\* The float of a 53-bit significand m, and the significand of a float.
MakeDbl ==
    [neg \in BOOLEAN, m \in Wide, e \in Int |->
       [k |-> "fin", neg |-> neg,
        hi |-> WGet(m, 4) + 512 * WGet(m, 5) + 262144 * WGet(m, 6),
        lo |-> WGet(m, 1) + 512 * WGet(m, 2) + 262144 * WGet(m, 3),
        e |-> e]]
Mant(d) ==
    <<d.lo % 512, (d.lo \div 512) % 512, d.lo \div 262144,
      d.hi % 512, (d.hi \div 512) % 512, d.hi \div 262144>>

\* w of L > 53 bits rounded to 53 bits: round to nearest, ties to even
\* (sticky says that the exact value lies above w).
RoundUp(w, k, sticky) ==
    /\ WBit(w, k - 1) = 1
    /\ \/ sticky
       \/ WBit(w, k) = 1
       \/ \E i \in 0 .. (k - 2) : WBit(w, i) = 1
Rounded ==
    [w \in Wide, L \in Nat, sticky \in BOOLEAN |->
       WAdd[WShr[w, L - 53], IF RoundUp(w, L - 53, sticky) THEN <<1>> ELSE <<0>>]]

\* The float of r * 2^e, r of 53 bits, or of 54 after a carry out of the
\* rounding (r is then 2^53).
Normal ==
    [neg \in BOOLEAN, r \in Wide, L \in Nat, e \in Int |->
       MakeDbl[neg, WShr[r, L - 53], e + (L - 53)]]

\* The float nearest to w * 2^e, w of L bits (to a value just above it when
\* sticky).
RoundBits ==
    [neg \in BOOLEAN, w \in Wide, L \in Nat, e \in Int, sticky \in BOOLEAN |->
       IF L = 0 THEN DblZero
       ELSE Normal[neg,
                   IF L <= 53 THEN WShl[w, 53 - L] ELSE Rounded[w, L, sticky],
                   IF L <= 53 THEN 53 ELSE WBitLen(Rounded[w, L, sticky]),
                   IF L <= 53 THEN e - (53 - L) ELSE e + (L - 53)]]
RoundDbl ==
    [neg \in BOOLEAN, w \in Wide, e \in Int, sticky \in BOOLEAN |->
       RoundBits[neg, w, WBitLen(w), e, sticky]]

\* float(s) for the decimal text s of v thousandths, 0 <= v < 2^27: the
\* float nearest to v / 1000.
Scaled(v) == <<0, 0, 0, 0, 0, 0, 0, 0, v % 512, (v \div 512) % 512, v \div 262144>>
Dbl ==
    [v \in Nat |->
       RoundDbl[FALSE, WDiv[Scaled(v), 1000], -72, WRem(Scaled(v), 1000, 0) # 0]]

\* a - b: the significands x and y aligned to the unit 2^e, then their
\* difference (or sum, for opposite signs) rounded.
SubAligned ==
    [aneg \in BOOLEAN, bneg \in BOOLEAN, x \in Wide, y \in Wide, e \in Int |->
       RoundDbl[IF aneg = bneg /\ WLess(x, y) THEN ~aneg ELSE aneg,
                IF aneg # bneg THEN WAdd[x, y]
                ELSE IF WLess(x, y) THEN WSub[y, x] ELSE WSub[x, y],
                e, FALSE]]
FSub ==
    [a \in Dbls, b \in Dbls |->
       IF a.k = "nan" \/ b.k = "nan" THEN DblNaN
       ELSE IF IsZero(b) THEN a
       ELSE IF IsZero(a) THEN [b EXCEPT !.neg = ~b.neg]
       ELSE SubAligned[a.neg, b.neg,
                       WShl[Mant(a), IF a.e > b.e THEN a.e - b.e ELSE 0],
                       WShl[Mant(b), IF b.e > a.e THEN b.e - a.e ELSE 0],
                       IF a.e < b.e THEN a.e ELSE b.e]]

\* a * k for an int k, 0 < k < 2^20
FMulInt ==
    [a \in Dbls, k \in Nat |->
       IF a.k = "nan" THEN DblNaN ELSE RoundDbl[a.neg, WMul[Mant(a), k], a.e, FALSE]]

\* abs(d); a > b; max(a, b) as Python computes it (b only if b > a);
\* d != 0; d > 0; d < 0. Every comparison with nan is false but !=.
FAbs(d) == [d EXCEPT !.neg = FALSE]
GtMag(a, b) ==
    IF IsZero(a) THEN FALSE
    ELSE IF IsZero(b) THEN TRUE
    ELSE a.e > b.e \/ (a.e = b.e /\ (a.hi > b.hi \/ (a.hi = b.hi /\ a.lo > b.lo)))
FGt(a, b) ==
    /\ a.k = "fin"
    /\ b.k = "fin"
    /\ CASE ~a.neg /\ ~b.neg -> GtMag(a, b)
         [] a.neg /\ b.neg -> GtMag(b, a)
         [] ~a.neg /\ b.neg -> ~(IsZero(a) /\ IsZero(b))
         [] OTHER -> FALSE
PyMax(a, b) == IF FGt(b, a) THEN b ELSE a
FNonZero(d) == d.k = "nan" \/ ~IsZero(d)
FPositive(d) == FGt(d, DblZero)
FNegative(d) == FGt(DblZero, d)

\* ------------------------------------------------------- parse_prices ---
\* Python values an outcomePrices field can hold after the response was
\* JSON-decoded. Array elements (and the characters of a string):
\*   num     a JSON number, v thousandths
\*   numstr  a string float() accepts, such as "0.40"
\*   badstr  a string float() rejects (ValueError)
\*   null    None (TypeError)
\*   nan     the float nan, which json.loads yields for NaN (float() accepts)
\*   bigint  an integer too large for a float (OverflowError)
ElemNum(v) == [t |-> "num", v |-> v]
ElemNumStr(v) == [t |-> "numstr", v |-> v]
ElemBadStr == [t |-> "badstr", v |-> 0]
ElemNull == [t |-> "null", v |-> 0]
ElemNaN == [t |-> "nan", v |-> 0]
ElemBigInt == [t |-> "bigint", v |-> 0]

\* Values:
\*   list    a list/tuple of elements
\*   dict    a JSON object (string keys)
\*   num     a bare number
\*   null    None
\*   pystr   a str that is not JSON text any more (the result of decoding a
\*           JSON string literal); elems are its characters
\*   text    a str holding JSON text; decodes to the value of kind `inner`
\*           with elements elems, or is invalid JSON (inner = "invalid")
PyList(elems) == [t |-> "list", inner |-> "", elems |-> elems]
PyDict == [t |-> "dict", inner |-> "", elems |-> <<>>]
PyNum == [t |-> "num", inner |-> "", elems |-> <<>>]
PyNone == [t |-> "null", inner |-> "", elems |-> <<>>]
PyStr(chars) == [t |-> "pystr", inner |-> "", elems |-> chars]
JsonText(val) == [t |-> "text", inner |-> val.t, elems |-> val.elems]
InvalidJsonText == [t |-> "text", inner |-> "invalid", elems |-> <<>>]

\* Results of a call: a value, None, or an exception leaving the function.
RetPair(y, n) == [tag |-> "pair", y |-> y, n |-> n, exc |-> ""]
RetNone == [tag |-> "None", y |-> [t |-> "none", v |-> 0], n |-> [t |-> "none", v |-> 0], exc |-> ""]
Raises(exc) == [tag |-> "raise", y |-> [t |-> "none", v |-> 0], n |-> [t |-> "none", v |-> 0], exc |-> exc]

\* json.loads(raw) of a str.
JsonLoads(raw) ==
    IF raw.inner = "invalid" THEN Raises("JSONDecodeError")
    ELSE [tag |-> "value", val |-> [t |-> raw.inner, inner |-> "", elems |-> raw.elems]]

\* raw[i] (0-based) of a decoded value: the element or the exception.
Subscript(val, i) ==
    CASE val.t \in {"list", "pystr"} ->
            IF i < Len(val.elems) THEN [tag |-> "value", exc |-> "", el |-> val.elems[i + 1]]
            ELSE [tag |-> "raise", exc |-> "IndexError", el |-> ElemNull]
      [] val.t = "dict" -> [tag |-> "raise", exc |-> "KeyError", el |-> ElemNull]
      [] OTHER -> [tag |-> "raise", exc |-> "TypeError", el |-> ElemNull]

\* float(x) of an element: a finite float, nan, or the exception.
Float(el) ==
    CASE el.t \in {"num", "numstr"} -> [tag |-> "value", exc |-> "", f |-> [t |-> "finite", v |-> el.v]]
      [] el.t = "nan" -> [tag |-> "value", exc |-> "", f |-> [t |-> "nan", v |-> 0]]
      [] el.t = "badstr" -> [tag |-> "raise", exc |-> "ValueError", f |-> [t |-> "none", v |-> 0]]
      [] el.t = "bigint" -> [tag |-> "raise", exc |-> "OverflowError", f |-> [t |-> "none", v |-> 0]]
      [] OTHER -> [tag |-> "raise", exc |-> "TypeError", f |-> [t |-> "none", v |-> 0]]

\* float(raw[i]): the subscript is evaluated first, then the conversion.
FloatAt(val, i) ==
    LET s == Subscript(val, i) IN
    IF s.tag = "raise" THEN [tag |-> "raise", exc |-> s.exc, f |-> [t |-> "none", v |-> 0]]
    ELSE Float(s.el)

\* The exceptions the second try block turns into None.
ParseCaught == {"IndexError", "TypeError", "ValueError"}

\* return float(raw[0]), float(raw[1]) inside try/except.
ParsePair(val) ==
    LET a == FloatAt(val, 0)
        b == FloatAt(val, 1)
    IN  IF a.tag = "raise"
          THEN (IF a.exc \in ParseCaught THEN RetNone ELSE Raises(a.exc))
        ELSE IF b.tag = "raise"
          THEN (IF b.exc \in ParseCaught THEN RetNone ELSE Raises(b.exc))
        ELSE RetPair(a.f, b.f)

parse_prices(raw) ==
    IF raw.t = "text"
      THEN LET d == JsonLoads(raw) IN
           IF d.tag = "raise" THEN RetNone ELSE ParsePair(d.val)
      ELSE ParsePair(raw)

\* -------------------------------------------------- fetch_all_events ---
\* catalog: the events upstream lists, in order; a request for offset o
\* answers with the next page_size of them. fails[k] is the number of
\* attempts of the k-th page (from 1) that end in a RequestException before
\* one succeeds; ps and mr are the page_size and max_retries arguments.
RECURSIVE FetchPages(_, _, _, _, _, _, _)
FetchPages(catalog, fails, ps, mr, offset, page, out) ==
    LET batch == SubSeq(catalog, offset + 1, Min(offset + ps, Len(catalog)))
        f == IF page <= Len(fails) THEN fails[page] ELSE 0
    IN  IF f >= mr THEN out
        ELSE IF batch = <<>> THEN out
        ELSE IF Len(batch) < ps THEN out \o batch
        ELSE FetchPages(catalog, fails, ps, mr, offset + ps, page + 1, out \o batch)

fetch_all_events(catalog, fails, ps, mr) == FetchPages(catalog, fails, ps, mr, 0, 1, <<>>)

\* Whether that call left through line 40: some page it asked for failed
\* max_retries times.
RECURSIVE PagesExhausted(_, _, _, _, _, _)
PagesExhausted(catalog, fails, ps, mr, offset, page) ==
    LET batch == SubSeq(catalog, offset + 1, Min(offset + ps, Len(catalog)))
        f == IF page <= Len(fails) THEN fails[page] ELSE 0
    IN  IF f >= mr THEN TRUE
        ELSE IF Len(batch) < ps THEN FALSE
        ELSE PagesExhausted(catalog, fails, ps, mr, offset + ps, page + 1)

\* ------------------------------------------------------------ upstream ---
\* Two events: e1 with the markets m1 and m2, e2 with the market m3.

\* outcomePrices as the API sends a quote: JSON text of an array of strings.
QuoteRaw(q) == JsonText(PyList(<<ElemNumStr(q[1]), ElemNumStr(q[2])>>))

\* The floats parse_prices returns for such a payload.
QuoteFloats(q) == <<[t |-> "finite", v |-> q[1]], [t |-> "finite", v |-> q[2]]>>

\* A market of a response: its id, whether it carries "question", and its
\* outcomePrices ([] when the field is absent: m.get("outcomePrices", [])).
MarketIn(id, hasq, raw) == [id |-> id, has_question |-> hasq, outcomePrices |-> raw]

\* The markets as upstream sends them: m1 quoted at (0.40, 0.60), without
\* outcomePrices, with a JSON object for outcomePrices, or without
\* "question"; m2, whose quote moves; m3 quoted or without outcomePrices.
Q1 == <<400, 600>>
Q2 == <<450, 550>>
M1 == MarketIn("m1", TRUE, QuoteRaw(Q1))
M1NoPrices == MarketIn("m1", TRUE, PyList(<<>>))
M1Object == MarketIn("m1", TRUE, PyDict)
M1NoQuestion == MarketIn("m1", FALSE, QuoteRaw(Q1))
M2(q) == MarketIn("m2", TRUE, QuoteRaw(q))
M3 == MarketIn("m3", TRUE, QuoteRaw(Q1))
M3NoPrices == MarketIn("m3", TRUE, PyList(<<>>))

\* An event of a response: e1 with its two markets, e2 with its one.
E1(m1, m2) == [id |-> "e1", markets |-> <<m1, m2>>]
E2(m3) == [id |-> "e2", markets |-> <<m3>>]

\* The catalogs upstream may hold at one fetch.
Catalogs ==
    {<<>>,
     <<E2(M3NoPrices)>>,
     <<E1(M1, M2(Q1))>>,
     <<E1(M1, M2(Q2))>>,
     <<E1(M1NoPrices, M2(Q2))>>,
     <<E1(M1Object, M2(Q2))>>,
     <<E1(M1NoQuestion, M2(Q2))>>,
     <<E1(M1, M2(Q2)), E2(M3NoPrices)>>,
     <<E1(M1, M2(Q1)), E2(M3)>>}

\* --------------------------------------------------------------- deque ---
\* A deque without maxlen: append drops nothing.
AppendUnbounded(d, x) == Append(d, x)

\* deque(maxlen=MAX_MOVES).append(x): a full deque drops its first entry.
DequeAppend(d, x) == IF Len(d) >= MAX_MOVES THEN Tail(d) \o <<x>> ELSE Append(d, x)

\* deque(items, maxlen=MAX_MOVES): the last MAX_MOVES of items.
DequeFrom(items) ==
    IF Len(items) > MAX_MOVES
      THEN SubSeq(items, Len(items) - MAX_MOVES + 1, Len(items))
      ELSE items

\* ---------------------------------------------------------- the files ---
\* What json.dump writes for the values of the two mirrors, as the JSON
\* document it is, and what json.load makes of such a document.

\* A float is written as its repr, which reads back as the same float; nan
\* is written as the token NaN, which json.load accepts.
DumpFloat(d) == IF d.k = "nan" THEN [t |-> "NaN", d |-> DblZero] ELSE [t |-> "number", d |-> d]
LoadFloat(j) == IF j.t = "NaN" THEN DblNaN ELSE j.d

\* time.time() values (the clock of the model).
DumpTime(ts) == [t |-> "number", v |-> ts]
LoadTime(j) == j.v

\* A str is written with ensure_ascii: the flat marker "—" (FLAT in the
\* model) goes out as the escape \\u2014, which json.load decodes.
DumpStr(s) == [t |-> "string", text |-> IF s = "FLAT" THEN "\\u2014" ELSE s]

\* The text of a string token taken as it stands, escapes not decoded.
LoadStrRaw(j) == j.text

LoadStr(j) == IF j.text = "\\u2014" THEN "FLAT" ELSE j.text

\* A market record (rec of scanner.py lines 136-150).
DumpRec(rec) ==
    [t |-> "object", id |-> DumpStr(rec.id), yes |-> DumpFloat(rec.yes),
     no |-> DumpFloat(rec.no), yd |-> DumpFloat(rec.yd), nd |-> DumpFloat(rec.nd),
     ydir |-> DumpStr(rec.ydir), ndir |-> DumpStr(rec.ndir),
     max_move |-> DumpFloat(rec.max_move)]
LoadRec(j) ==
    [id |-> LoadStr(j.id), yes |-> LoadFloat(j.yes), no |-> LoadFloat(j.no),
     yd |-> LoadFloat(j.yd), nd |-> LoadFloat(j.nd), ydir |-> LoadStr(j.ydir),
     ndir |-> LoadStr(j.ndir), max_move |-> LoadFloat(j.max_move)]

\* A move (scanner.py lines 155-167).
DumpMove(m) ==
    [t |-> "object", time_ts |-> DumpTime(m.time_ts), event_id |-> DumpStr(m.event_id),
     market_id |-> DumpStr(m.market_id), id |-> DumpStr(m.id),
     yes |-> DumpFloat(m.yes), no |-> DumpFloat(m.no), yd |-> DumpFloat(m.yd),
     nd |-> DumpFloat(m.nd), ydir |-> DumpStr(m.ydir), ndir |-> DumpStr(m.ndir),
     max_move |-> DumpFloat(m.max_move)]
LoadMove(j) ==
    [time_ts |-> LoadTime(j.time_ts), event_id |-> LoadStr(j.event_id),
     market_id |-> LoadStr(j.market_id), id |-> LoadStr(j.id),
     yes |-> LoadFloat(j.yes), no |-> LoadFloat(j.no), yd |-> LoadFloat(j.yd),
     nd |-> LoadFloat(j.nd), ydir |-> LoadStr(j.ydir), ndir |-> LoadStr(j.ndir),
     max_move |-> LoadFloat(j.max_move)]

\* list(moves) of file_manager.py line 46 as a JSON array; the list
\* json.load gives for such an array.
DumpMoveList(moves) ==
    [t |-> "array", items |-> [i \in 1 .. Len(moves) |-> DumpMove(moves[i])] \o <<>>]
LoadMoveList(doc) == [i \in 1 .. Len(doc.items) |-> LoadMove(doc.items[i])] \o <<>>

\* An event snapshot (scanner.py lines 175-180) and the dict of them, as a
\* JSON object with the event ids as member names.
DumpEvent(ev) ==
    [t |-> "object", id |-> DumpStr(ev.id),
     markets |-> [k \in 1 .. Len(ev.markets) |-> DumpRec(ev.markets[k])] \o <<>>]
LoadEvent(j) ==
    [id |-> LoadStr(j.id),
     markets |-> [k \in 1 .. Len(j.markets) |-> LoadRec(j.markets[k])] \o <<>>]
DumpEvents(data) ==
    [t |-> "object", members |-> [e \in DOMAIN data |-> DumpEvent(data[e])] @@ EmptyMap]
LoadEvents(doc) == [e \in DOMAIN doc.members |-> LoadEvent(doc.members[e])] @@ EmptyMap

\* The status dict: "status", "last_update" and, when there is a sound
\* trigger, "sound_trigger" (None in the model when the key is absent).
StatusRec(text, upd, snd) == [status |-> text, last_update |-> upd, sound_trigger |-> snd]
DumpStatus(st) ==
    [t |-> "object", status |-> DumpStr(st.status), last_update |-> DumpTime(st.last_update),
     has_trigger |-> st.sound_trigger # "None", sound_trigger |-> DumpStr(st.sound_trigger)]
LoadStatus(doc) ==
    StatusRec(LoadStr(doc.status), LoadTime(doc.last_update),
              IF doc.has_trigger THEN LoadStr(doc.sound_trigger) ELSE "None")

\* A file: whether it exists, how much of the document a save has written
\* ("none" after open(..., 'w') has truncated it, "part" while json.dump is
\* writing, "all" once it is closed), and the document.
NoEventsFile == [exists |-> FALSE, written |-> "none", data |-> DumpEvents(EmptyMap)]
NoMovesFile == [exists |-> FALSE, written |-> "none", data |-> DumpMoveList(<<>>)]
NoStatusFile == [exists |-> FALSE, written |-> "none", data |-> DumpStatus(StatusRec("", 0, "None"))]

\* `with open(...) as f: json.load(f)` of an existing file: the document,
\* or JSONDecodeError for a file that is empty or cut off (the text of an
\* array or object ends with its closing bracket, so no proper prefix of it
\* is a JSON document).
ReadJson(file) ==
    IF file.written = "all" THEN [tag |-> "value", exc |-> "", doc |-> file.data]
    ELSE [tag |-> "raise", exc |-> "JSONDecodeError", doc |-> file.data]

\* `except FileNotFoundError` in place of `except Exception`.
MissingFileOnly(exc) == exc = "FileNotFoundError"

\* `except Exception` of lines 38, 65 and 88 of file_manager.py.
LoadCaught(exc) == exc \in {"JSONDecodeError", "FileNotFoundError", "OSError", "ValueError"}

\* A load function: [tag, exc, val], val being what it returns, dflt when
\* the file is missing, onerr when the read raised and the handler caught.
LoadOutcome(file, val, dflt, onerr) ==
    IF ~file.exists THEN [tag |-> "value", exc |-> "", val |-> dflt]
    ELSE IF ReadJson(file).tag = "value" THEN [tag |-> "value", exc |-> "", val |-> val]
    ELSE IF LoadCaught(ReadJson(file).exc) THEN [tag |-> "value", exc |-> "", val |-> onerr]
    ELSE [tag |-> "raise", exc |-> ReadJson(file).exc, val |-> onerr]

\* file_manager.py: the saves (a whole file when they return) and the loads.
save_events_to_file(data) == [exists |-> TRUE, written |-> "all", data |-> DumpEvents(data)]
LoadEventsOutcome(file) == LoadOutcome(file, LoadEvents(file.data), EmptyMap, EmptyMap)
load_events_from_file(file) == LoadEventsOutcome(file).val
save_moves_to_file(moves) == [exists |-> TRUE, written |-> "all", data |-> DumpMoveList(moves)]
LoadMovesOutcome(file) == LoadOutcome(file, LoadMoveList(file.data), <<>>, <<>>)
load_moves_from_file(file) == LoadMovesOutcome(file).val
save_status(st) == [exists |-> TRUE, written |-> "all", data |-> DumpStatus(st)]
LoadStatusOutcome(file) ==
    LoadOutcome(file, LoadStatus(file.data), StatusRec("Not started", 0, "None"),
                StatusRec("Error loading status", 0, "None"))
load_status(file) == LoadStatusOutcome(file).val

\* ------------------------------------------------------------- state ---
VARIABLES
    events_meta,    \* scanner.events_meta: the event ids it has a record for
    events_data,    \* scanner.events_data: event id -> snapshot record
    last_prices,    \* scanner.last_prices: market id -> <<yes, no>>
    recent_moves,   \* scanner.recent_moves: deque(maxlen=MAX_MOVES)
    lock,           \* scanner.lock: the thread inside a `with lock`, or NoThread
    events_file,    \* EVENTS_FILE
    moves_file,     \* MOVES_FILE
    status_file,    \* STATUS_FILE
    clock,          \* what time.time() returns
    pc,             \* per thread: where it is in scan_loop
    status,         \* per thread: scan_loop's local status dict
    now,            \* per thread: scan_loop's local now
    fetched,        \* per thread: the list fetch_all_events returned to the tick
    exhausted,      \* per thread: whether that call gave up on a page
    pos,            \* per thread: how many events of fetched the for loop has done
    updated,        \* per thread: scan_loop's local updated
    new_moves,      \* per thread: scan_loop's local new_moves
    eid,            \* per thread: scan_loop's local eid
    raw_in,         \* the argument of a parse_prices call (SpecParse)
    parse_out,      \* what that call returned or raised (SpecParse)
    call,           \* a fetch_all_events call on its own: its locals (SpecFetch)
    diff_in,        \* <<(y, n), (py, pn)>> of lines 123-124 (SpecDiff)
    diff_out,       \* <<[dy, dn, rec]>> of lines 125-150 for them, <<>> before
    mirror,         \* the values a save is given and what a load returned (SpecMirror)
    consumer,       \* the objects of the Kalshi scanner and of a caller of its accessors
                    \* (SpecAccess)
    news            \* TreeOfAlphaNewsService: its class attributes, NEWS_FILE and the
                    \* threads that call it (SpecNews)

vars == <<events_meta, events_data, last_prices, recent_moves, lock, events_file,
          moves_file, status_file, clock, pc, status, now, fetched, exhausted, pos,
          updated, new_moves, eid, raw_in, parse_out, call,
          diff_in, diff_out, mirror, consumer, news>>

shared == <<events_meta, events_data, last_prices, recent_moves>>
files == <<events_file, moves_file, status_file>>
locals == <<status, now, fetched, exhausted, pos, updated, new_moves, eid>>
probe == <<raw_in, parse_out, call, diff_in, diff_out, mirror, consumer, news>>

NoThread == -1
NotCalled == [tag |-> "not called", y |-> [t |-> "none", v |-> 0], n |-> [t |-> "none", v |-> 0], exc |-> ""]
NoCall ==
    [pc |-> "idle", catalog |-> <<>>, page_size |-> 0, out |-> <<>>, offset |-> 0,
     attempt |-> 0, asked |-> <<>>, gave_up |-> FALSE]
NoQuotes == <<>>
NotDiffed == <<>>
NoMirror ==
    [events |-> EmptyMap, moves |-> <<>>, status |-> StatusRec("", 0, "None"), out |-> <<>>]
NoConsumer == [heap |-> <<>>, got |-> 0]

\* services/tree_of_alpha_service.py. MAX_NEWS_ITEMS is line 22. The lock of
\* line 35 is a threading.Lock(): news.lock is the thread that holds it, or
\* Unlocked. _thread of line 33 is None (NoWorker) or the Thread object that
\* start_scanner made last.
MAX_NEWS_ITEMS == 1000
Unlocked == 0
NoWorker == 0

\* Mains are the threads that call the methods of the class; Workers are the
\* Thread objects start_scanner can make, each running connect_websocket.
MaxWorkers == 2
Mains == {1, 2}
Workers == 3 .. (2 + MaxWorkers)
Agents == Mains \cup Workers

\* The values of '_id': a string of the feed, the string of line 135
\* (f"news_{int(time.time() * 1000)}"), the string of line 334
\* ("test_" + str(int(time.time()))), or None.
PyNoneId == [kind |-> "None", n |-> 0]
GivenId(n) == [kind |-> "given", n |-> n]
NewsId(ms) == [kind |-> "news_", n |-> ms]
TestId(s) == [kind |-> "test_", n |-> s]

\* A news dict, as far as its '_id' key goes, and item.get('_id') of it.
NewsItem(has_id, id) == [has_id |-> has_id, id |-> id]
Get_id(item) == IF item.has_id THEN item.id ELSE PyNoneId

\* NEWS_FILE: json.dump of line 76 writes a list of objects, json.load of
\* line 88 reads it back. A JSON object here is the sequence of its members.
DumpId(id) ==
    IF id.kind = "None" THEN [t |-> "null", text |-> "", n |-> 0]
    ELSE [t |-> "string", text |-> id.kind, n |-> id.n]
LoadId(j) ==
    IF j.t = "null" THEN PyNoneId ELSE [kind |-> j.text, n |-> j.n]
DumpNewsItem(item) ==
    IF item.has_id THEN <<[key |-> "_id", value |-> DumpId(item.id)]>> ELSE <<>>
LoadNewsItem(obj) ==
    IF \E i \in 1..Len(obj) : obj[i].key = "_id"
        THEN NewsItem(TRUE, LoadId(obj[CHOOSE i \in 1..Len(obj) : obj[i].key = "_id"].value))
        ELSE NewsItem(FALSE, PyNoneId)
NoNewsFile == [exists |-> FALSE, data |-> <<>>]
NewsFileOf(items) ==
    [exists |-> TRUE, data |-> [i \in 1..Len(items) |-> DumpNewsItem(items[i])]]
LoadNewsList(f) == [i \in 1..Len(f.data) |-> LoadNewsItem(f.data[i])]

\* A thread of the service: where it is, the message dict it is adding, the
\* list load_news_from_file has read, the caller save_news_to_file goes back
\* to, and whether an on_message call of it has returned at line 145.
AgentAt(at) ==
    [pc |-> at, data |-> NewsItem(FALSE, PyNoneId), loaded |-> <<>>, ret |-> "", out |-> ""]

\* The class as the import leaves it (lines 31-37), with no NEWS_FILE.
NoNews ==
    [items |-> <<>>, lock |-> Unlocked, file |-> NoNewsFile, thread |-> NoWorker,
     agent |-> [a \in Agents |-> IF a \in Mains THEN AgentAt("idle") ELSE AgentAt("unborn")]]

\* The pc values inside `while True` (lines 83-224).
LoopPcs == {"sleep", "fetch", "event", "cleanup_check", "cleanup", "publish_moves", "sound", "except"}

\* The state when main() has called start_scanner: nothing in memory, the
\* moves file as mf (the scanner never deletes it, so a file of an earlier
\* run may be there), thread 0 at the top of scan_loop.
InitProgram(mf) ==
    /\ events_meta = {}
    /\ events_data = EmptyMap
    /\ last_prices = EmptyMap
    /\ recent_moves = <<>>
    /\ lock = NoThread
    /\ events_file = NoEventsFile
    /\ moves_file = mf
    /\ status_file = NoStatusFile
    /\ clock = 1
    /\ pc = [t \in Threads |-> IF t = 0 THEN "start" ELSE "idle"]
    /\ status = [t \in Threads |-> StatusRec("", 0, "None")]
    /\ now = [t \in Threads |-> 0]
    /\ fetched = [t \in Threads |-> <<>>]
    /\ exhausted = [t \in Threads |-> FALSE]
    /\ pos = [t \in Threads |-> 0]
    /\ updated = [t \in Threads |-> EmptyMap]
    /\ new_moves = [t \in Threads |-> <<>>]
    /\ eid = [t \in Threads |-> ""]

\* The same with no call of the functions that are examined alone, but for
\* parse_prices(raw).
InitState(mf, raw) ==
    /\ InitProgram(mf)
    /\ raw_in = raw
    /\ parse_out = NotCalled
    /\ call = NoCall
    /\ diff_in = NoQuotes
    /\ diff_out = NotDiffed
    /\ mirror = NoMirror
    /\ consumer = NoConsumer
    /\ news = NoNews

Init == InitState(NoMovesFile, PyNone)

\* ------------------------------------------------------ the diff step ---
\* The float that a side of a parse_prices result is: the float nearest to
\* v thousandths, or nan.
ToDbl(f) == IF f.t = "nan" THEN DblNaN ELSE Dbl[f.v]

\* Line 125: (y - py) * 100. Lines 139-140: y * 100.
PctChange(y, py) == FMulInt[FSub[y, py], 100]
Pct(y) == FMulInt[y, 100]

\* The floats a quote of Catalogs or of QuoteInputs can hold, and the two
\* computations on them as explicit tables (@@ makes a table of a function
\* that is given by a rule).
Prices == {Q1[1], Q1[2], Q2[1], Q2[2]}
Floats == {[t |-> "nan", v |-> 0]} \cup {[t |-> "finite", v |-> v] : v \in Prices}
PctOfFloat == [f \in Floats |-> Pct(ToDbl(f))] @@ EmptyMap
PctChangeOfFloats ==
    [q \in Floats \X Floats |-> PctChange(ToDbl(q[1]), ToDbl(q[2]))] @@ EmptyMap
PctOf(f) == PctOfFloat[f]
PctChangeOf(f, pf) == PctChangeOfFloats[<<f, pf>>]

\* Lines 143-144.
Direction(d) == IF FPositive(d) THEN "UP" ELSE IF FNegative(d) THEN "DOWN" ELSE "FLAT"

\* rec of lines 136-150 (the volume fields are left out); y100 and n100 are
\* y * 100 and n * 100.
MarketRec(id, y100, n100, dy, dn) ==
    [id |-> id, yes |-> y100, no |-> n100, yd |-> FAbs(dy), nd |-> FAbs(dn),
     ydir |-> Direction(dy), ndir |-> Direction(dn),
     max_move |-> PyMax(FAbs(dy), FAbs(dn))]

\* move of lines 155-167: the context fields and **rec.
MoveRec(ts, e, rec) ==
    [time_ts |-> ts, event_id |-> e, market_id |-> rec.id, id |-> rec.id,
     yes |-> rec.yes, no |-> rec.no, yd |-> rec.yd, nd |-> rec.nd,
     ydir |-> rec.ydir, ndir |-> rec.ndir, max_move |-> rec.max_move]

\* The condition of line 154.
RecordsMove(dy, dn) == FNonZero(dy) \/ FNonZero(dn)

\* Lines 123-150 for a quote <<y, n>> and the last_prices entry <<py, pn>>
\* it is diffed against: dy, dn and rec.
Diffed(id, y100, n100, dy, dn) ==
    [dy |-> dy, dn |-> dn, rec |-> MarketRec(id, y100, n100, dy, dn)]
DiffQuote(id, q, prev) ==
    Diffed(id, PctOf(q[1]), PctOf(q[2]), PctChangeOf(q[1], prev[1]), PctChangeOf(q[2], prev[2]))

\* last_prices left as it was.
NotOverwritten(lp, id, q) == lp

\* Line 171: last_prices[m["id"]] = (y, n).
Overwritten(lp, id, q) == (id :> q) @@ lp

\* Lines 136-171 for a market m of event e whose quote q gave the diff d.
\* A market without "question" raises KeyError at line 138, before rec, the
\* move and the last_prices write.
Recorded(e, m, ts, acc, q, d) ==
    [lp |-> Overwritten(acc.lp, m.id, q),
     rm |-> IF RecordsMove(d.dy, d.dn)
              THEN DequeAppend(acc.rm, MoveRec(ts, e, d.rec)) ELSE acc.rm,
     nm |-> IF RecordsMove(d.dy, d.dn)
              THEN Append(acc.nm, MoveRec(ts, e, d.rec)) ELSE acc.nm,
     mkts |-> Append(acc.mkts, d.rec),
     exc |-> ""]

\* A loop body that would read m["question"] after recent_moves.append.
AppendsThenRaises(e, m, ts, acc, q, d) ==
    IF ~m.has_question
      THEN [acc EXCEPT !.rm = Recorded(e, m, ts, acc, q, d).rm, !.exc = "KeyError"]
      ELSE Recorded(e, m, ts, acc, q, d)

RecordMarket(e, m, ts, acc, q, d) ==
    IF ~m.has_question THEN [acc EXCEPT !.exc = "KeyError"]
    ELSE Recorded(e, m, ts, acc, q, d)

\* A lookup that would take every market for a first sighting.
FirstSighting(lp, id, q) == q

\* A lookup whose default is a fixed quote, not the quote just parsed.
DefaultsToFixed(lp, id, q) == IF id \in DOMAIN lp THEN lp[id] ELSE QuoteFloats(Q1)

\* Line 124: last_prices.get(m["id"], (y, n)).
PreviousQuote(lp, id, q) == IF id \in DOMAIN lp THEN lp[id] ELSE q

\* Lines 119-171 for one market m of event e. acc carries last_prices (lp),
\* recent_moves (rm), new_moves (nm), mkts and the exception that ended the
\* loop (exc, "" for none).
DiffMarket(e, m, ts, acc) ==
    LET p == parse_prices(m.outcomePrices) IN
    IF p.tag = "raise" THEN [acc EXCEPT !.exc = p.exc]
    ELSE IF p.tag = "None" THEN acc
    ELSE RecordMarket(e, m, ts, acc, <<p.y, p.n>>,
                      DiffQuote(m.id, <<p.y, p.n>>,
                                PreviousQuote(acc.lp, m.id, <<p.y, p.n>>)))

\* for m in ev.get("markets", []), from the k-th market on.
RECURSIVE DiffMarkets(_, _, _, _)
DiffMarkets(ev, k, ts, acc) ==
    IF k > Len(ev.markets) \/ acc.exc # "" THEN acc
    ELSE DiffMarkets(ev, k + 1, ts, DiffMarket(ev.id, ev.markets[k], ts, acc))

\* Lines 69-72 of the seed for one market: last_prices[m["id"]] = p if p.
SeedMarket(m, acc) ==
    LET p == parse_prices(m.outcomePrices) IN
    IF p.tag = "raise" THEN [acc EXCEPT !.exc = p.exc]
    ELSE IF p.tag = "None" THEN acc
    ELSE [acc EXCEPT !.lp = (m.id :> <<p.y, p.n>>) @@ acc.lp]

RECURSIVE SeedMarkets(_, _, _)
SeedMarkets(ev, k, acc) ==
    IF k > Len(ev.markets) \/ acc.exc # "" THEN acc
    ELSE SeedMarkets(ev, k + 1, SeedMarket(ev.markets[k], acc))

\* Lines 201-202: max(new_moves, key=...) keeps the first move and takes a
\* later one only when its key is greater; mag is the key of the one kept.
MoveKey(m) == PyMax(m.yd, m.nd)
RECURSIVE MaxMag(_, _, _)
MaxMag(moves, i, best) ==
    IF i > Len(moves) THEN best
    ELSE MaxMag(moves, i + 1, IF FGt(MoveKey(moves[i]), best) THEN MoveKey(moves[i]) ELSE best)

\* The thresholds of lines 203-207: 5, 1 and 0.3.
HighAbove == Dbl[5000]
MediumAbove == Dbl[1000]
LowAbove == Dbl[300]

\* Lines 200-208: the level of the largest magnitude among the new moves.
SoundTrigger(moves) ==
    IF moves = <<>> THEN "None"
    ELSE LET mag == MaxMag(moves, 2, MoveKey(moves[1])) IN
         IF FGt(mag, HighAbove) THEN "high"
         ELSE IF FGt(mag, MediumAbove) THEN "medium"
         ELSE IF FGt(mag, LowAbove) THEN "low"
         ELSE "None"

\* `except Exception` of lines 78 and 221: the exception classes it catches
\* (all that the code of a tick can raise).
ValueErrorOnly(exc) == exc \in {"ValueError", "JSONDecodeError"}
Caught(exc) ==
    exc \in {"KeyError", "IndexError", "TypeError", "ValueError", "OverflowError",
             "JSONDecodeError"}

\* Where a tick goes when exc is raised inside its try block: to the handler
\* of line 221, or out of scan_loop, which ends the thread.
AfterRaise(exc) == IF Caught(exc) THEN "except" ELSE "dead"

\* ------------------------------------------------------------ actions ---
Goto(t, where) == pc' = [pc EXCEPT ![t] = where]

\* status[...] = ...; save_status(status)
SetStatus(t, st) ==
    /\ status' = [status EXCEPT ![t] = st]
    /\ status_file' = save_status(st)

\* fetch_all_events(params) as scan_loop calls it, on whatever upstream
\* holds and with fails[k] failing attempts of the k-th page. The lists of
\* the model are scaled down: a page holds PagedBy events where the
\* program's holds page_size, so that a catalog of two events is a list of
\* two pages.
FetchResult(catalog, fails) == fetch_all_events(catalog, fails, PagedBy, max_retries)
FetchExhausted(catalog, fails) == PagesExhausted(catalog, fails, PagedBy, max_retries, 0, 1)

\* The failing attempts of a fetch: up to max_retries of the first page, or
\* max_retries of the second page after the first page succeeded. (Giving
\* up on the empty page that follows the last event is left out: the list
\* returned is the whole catalog, as without a failure.)
FailureRuns(catalog) ==
    {<<f>> : f \in 0 .. max_retries}
    \cup (IF Len(catalog) > PagedBy THEN {<<0, max_retries>>} ELSE {})

\* main.py manual_fetch (and start_scanner for thread 0, done in Init):
\* threading.Thread(target=scan_loop).start().
manual_fetch ==
    /\ \E t \in Threads :
          /\ pc[t] = "idle"
          /\ \A u \in Threads : u < t => pc[u] # "idle"
          /\ Goto(t, "start")
    /\ UNCHANGED <<shared, lock, files, clock, locals, probe>>

\* Lines 31-43: the first status, and events_data and events_meta rebound
\* (outside the lock) to what the events file holds, if it holds anything.
Start(t) ==
    /\ pc[t] = "start"
    /\ SetStatus(t, StatusRec("Starting scan", clock, "None"))
    /\ LET file_events == load_events_from_file(events_file) IN
       IF DOMAIN file_events # {}
         THEN /\ events_data' = file_events
              /\ events_meta' = DOMAIN file_events
         ELSE UNCHANGED <<events_data, events_meta>>
    /\ Goto(t, "load_moves")
    /\ UNCHANGED <<last_prices, recent_moves, lock, events_file, moves_file, clock,
                   now, fetched, exhausted, pos, updated, new_moves, eid, probe>>

\* Lines 45-55: recent_moves rebound (outside the lock) to a deque of what
\* the moves file holds, if it holds anything; the "Initial scan" status.
LoadMoves(t) ==
    /\ pc[t] = "load_moves"
    /\ LET file_moves == load_moves_from_file(moves_file) IN
       IF file_moves # <<>>
         THEN recent_moves' = DequeFrom(file_moves)
         ELSE UNCHANGED recent_moves
    /\ SetStatus(t, [status[t] EXCEPT !.status = "Initial scan"])
    /\ Goto(t, "seed_fetch")
    /\ UNCHANGED <<events_meta, events_data, last_prices, lock, events_file,
                   moves_file, clock, now, fetched, exhausted, pos, updated,
                   new_moves, eid, probe>>

\* Line 57, the call.
SeedFetch(t) ==
    /\ pc[t] = "seed_fetch"
    /\ \E catalog \in Catalogs : \E fails \in FailureRuns(catalog) :
          /\ fetched' = [fetched EXCEPT ![t] = FetchResult(catalog, fails)]
          /\ exhausted' = [exhausted EXCEPT ![t] = FetchExhausted(catalog, fails)]
    /\ pos' = [pos EXCEPT ![t] = 0]
    /\ Goto(t, "seed_event")
    /\ UNCHANGED <<shared, lock, files, clock, status, now, updated, new_moves, eid,
                   probe>>

\* Lines 57-72, one event of the for loop under the lock; lines 74-77 when
\* the loop is over. The list is dead once the loop is left and is cleared.
SeedEvent(t) ==
    /\ pc[t] = "seed_event"
    /\ IF pos[t] = Len(fetched[t])
         THEN /\ SetStatus(t, StatusRec("Initial scan completed", clock, status[t].sound_trigger))
              /\ Goto(t, "sleep")
              /\ fetched' = [fetched EXCEPT ![t] = <<>>]
              /\ exhausted' = [exhausted EXCEPT ![t] = FALSE]
              /\ pos' = [pos EXCEPT ![t] = 0]
              /\ UNCHANGED shared
         ELSE /\ lock = NoThread
              /\ LET ev == fetched[t][pos[t] + 1]
                     r == SeedMarkets(ev, 1, [lp |-> last_prices, exc |-> ""])
                 IN  /\ events_meta' = events_meta \cup {ev.id}
                     /\ last_prices' = r.lp
                     /\ IF r.exc = ""
                          THEN /\ pos' = [pos EXCEPT ![t] = @ + 1]
                               /\ UNCHANGED <<pc, fetched, exhausted>>
                          ELSE /\ fetched' = [fetched EXCEPT ![t] = <<>>]
                               /\ exhausted' = [exhausted EXCEPT ![t] = FALSE]
                               /\ pos' = [pos EXCEPT ![t] = 0]
                               /\ Goto(t, IF Caught(r.exc) THEN "seed_except" ELSE "dead")
              /\ UNCHANGED <<events_data, recent_moves, status, status_file>>
    /\ UNCHANGED <<lock, events_file, moves_file, clock, now, updated, new_moves, eid,
                   probe>>

\* Lines 78-81.
SeedExcept(t) ==
    /\ pc[t] = "seed_except"
    /\ SetStatus(t, [status[t] EXCEPT !.status = "Error during initial scan"])
    /\ Goto(t, "sleep")
    /\ UNCHANGED <<shared, lock, events_file, moves_file, clock, now, fetched,
                   exhausted, pos, updated, new_moves, eid, probe>>

\* Lines 84-92: the sleep lets the clock advance; now, updated, new_moves;
\* the "Scanning for updates" status.
Sleep(t) ==
    /\ pc[t] = "sleep"
    /\ clock < MaxClock
    /\ clock' = clock + 1
    /\ now' = [now EXCEPT ![t] = clock + 1]
    /\ updated' = [updated EXCEPT ![t] = EmptyMap]
    /\ new_moves' = [new_moves EXCEPT ![t] = <<>>]
    /\ SetStatus(t, [status[t] EXCEPT !.status = "Scanning for updates"])
    /\ Goto(t, "fetch")
    /\ UNCHANGED <<shared, lock, events_file, moves_file, fetched, exhausted, pos,
                   eid, probe>>

\* Line 94, the call.
Fetch(t) ==
    /\ pc[t] = "fetch"
    /\ \E catalog \in Catalogs : \E fails \in FailureRuns(catalog) :
          /\ fetched' = [fetched EXCEPT ![t] = FetchResult(catalog, fails)]
          /\ exhausted' = [exhausted EXCEPT ![t] = FetchExhausted(catalog, fails)]
    /\ pos' = [pos EXCEPT ![t] = 0]
    /\ Goto(t, "event")
    /\ UNCHANGED <<shared, lock, files, clock, status, now, updated, new_moves, eid,
                   probe>>

\* Line 94 when the body of a 2xx answer is no JSON: r.json() raises a
\* ValueError, which fetch_all_events does not catch.
FetchRaises(t) ==
    /\ pc[t] = "fetch"
    /\ Goto(t, AfterRaise("ValueError"))
    /\ UNCHANGED <<shared, lock, files, clock, locals, probe>>

\* Lines 95-180, one event of the for loop under the lock; an exception
\* leaves the with block (and the for loop, whose list is then dead and is
\* cleared) with the writes made so far.
\* eid is read again only by line 183 after an event without markets, and
\* is kept for that case alone. The rebinds of Start and LoadMoves, made
\* outside the lock, fall between two events here, not between two markets
\* of one event.
Event(t) ==
    /\ pc[t] = "event"
    /\ pos[t] < Len(fetched[t])
    /\ lock = NoThread
    /\ LET ev == fetched[t][pos[t] + 1]
           r == DiffMarkets(ev, 1, now[t],
                            [lp |-> last_prices, rm |-> recent_moves,
                             nm |-> new_moves[t], mkts |-> <<>>, exc |-> ""])
       IN  /\ events_meta' = events_meta \cup {ev.id}
           /\ last_prices' = r.lp
           /\ recent_moves' = r.rm
           /\ new_moves' = [new_moves EXCEPT ![t] = r.nm]
           /\ eid' = [eid EXCEPT ![t] = IF r.exc = "" /\ r.mkts = <<>> THEN ev.id ELSE ""]
           /\ IF r.exc # ""
                THEN /\ Goto(t, AfterRaise(r.exc))
                     /\ fetched' = [fetched EXCEPT ![t] = <<>>]
                     /\ pos' = [pos EXCEPT ![t] = 0]
                     /\ UNCHANGED updated
              ELSE IF r.mkts # <<>>
                THEN /\ updated' = [updated EXCEPT ![t] =
                                      (ev.id :> [id |-> ev.id, markets |-> r.mkts]) @@ @]
                     /\ pos' = [pos EXCEPT ![t] = @ + 1]
                     /\ UNCHANGED <<pc, fetched>>
              ELSE /\ Goto(t, "cleanup_check")
                   /\ pos' = [pos EXCEPT ![t] = @ + 1]
                   /\ UNCHANGED <<updated, fetched>>
    /\ UNCHANGED <<events_data, lock, files, clock, status, now, exhausted, probe>>

\* Line 183 after an event without parseable markets: the test is made
\* outside the lock.
CleanupCheck(t) ==
    /\ pc[t] = "cleanup_check"
    /\ Goto(t, IF eid[t] \in DOMAIN events_data THEN "cleanup" ELSE "event")
    /\ eid' = [eid EXCEPT ![t] = IF eid[t] \in DOMAIN events_data THEN @ ELSE ""]
    /\ UNCHANGED <<shared, lock, files, clock, status, now, fetched, exhausted, pos,
                   updated, new_moves, probe>>

\* Lines 184-188.
Cleanup(t) ==
    /\ pc[t] = "cleanup"
    /\ lock = NoThread
    /\ events_data' = [e \in DOMAIN events_data \ {eid[t]} |-> events_data[e]]
    /\ events_meta' = events_meta \ {eid[t]}
    /\ eid' = [eid EXCEPT ![t] = ""]
    /\ Goto(t, "event")
    /\ UNCHANGED <<last_prices, recent_moves, lock, files, clock, status, now,
                   fetched, exhausted, pos, updated, new_moves, probe>>

\* Lines 190-194: the for loop is over (its list is dead and is cleared) and
\* the lock is taken; events_data is replaced and saved when updated is not
\* empty.
Publish(t) ==
    /\ pc[t] = "event"
    /\ pos[t] = Len(fetched[t])
    /\ lock = NoThread
    /\ lock' = t
    /\ IF DOMAIN updated[t] # {}
         THEN /\ events_data' = updated[t]
              /\ events_file' = save_events_to_file(updated[t])
         ELSE UNCHANGED <<events_data, events_file>>
    /\ fetched' = [fetched EXCEPT ![t] = <<>>]
    /\ pos' = [pos EXCEPT ![t] = 0]
    /\ Goto(t, "publish_moves")
    /\ UNCHANGED <<events_meta, last_prices, recent_moves, moves_file, status_file,
                   clock, status, now, exhausted, updated, new_moves, eid, probe>>

\* A thread that keeps the lock after the block of line 190.
StillHeld(t) == t

\* The holder of the lock once thread t has left the `with lock` block of
\* line 190: the block ends after line 197 and releases it.
Released(t) == NoThread

\* Line 197, and the lock is released.
PublishMoves(t) ==
    /\ pc[t] = "publish_moves"
    /\ lock = t
    /\ moves_file' = save_moves_to_file(recent_moves)
    /\ lock' = Released(t)
    /\ Goto(t, "sound")
    /\ UNCHANGED <<shared, events_file, status_file, clock, locals, probe>>

\* The locals of a tick are dead from its last statement to lines 85-88 of
\* the next iteration; they are cleared when the tick ends.
EndTick(t) ==
    /\ exhausted' = [exhausted EXCEPT ![t] = FALSE]
    /\ updated' = [updated EXCEPT ![t] = EmptyMap]
    /\ new_moves' = [new_moves EXCEPT ![t] = <<>>]
    /\ now' = [now EXCEPT ![t] = 0]

\* Lines 199-217.
Sound(t) ==
    /\ pc[t] = "sound"
    /\ SetStatus(t, StatusRec("Updated", now[t], SoundTrigger(new_moves[t])))
    /\ EndTick(t)
    /\ Goto(t, "sleep")
    /\ UNCHANGED <<shared, lock, events_file, moves_file, clock, fetched, pos, eid,
                   probe>>

\* A handler that would stamp the status with the time ts of the tick.
StampedErrorStatus(st, ts) == [st EXCEPT !.status = "Scan error", !.last_update = ts]

\* Line 223: only status["status"] is assigned; last_update and
\* sound_trigger stay what they were.
ErrorStatus(st, ts) == [st EXCEPT !.status = "Scan error"]

\* Lines 221-224.
ScanError(t) ==
    /\ pc[t] = "except"
    /\ SetStatus(t, ErrorStatus(status[t], now[t]))
    /\ EndTick(t)
    /\ Goto(t, "sleep")
    /\ UNCHANGED <<shared, lock, events_file, moves_file, clock, fetched, pos, eid,
                   probe>>

Step(t) ==
    \/ Start(t)
    \/ LoadMoves(t)
    \/ SeedFetch(t)
    \/ SeedEvent(t)
    \/ SeedExcept(t)
    \/ Sleep(t)
    \/ Fetch(t)
    \/ FetchRaises(t)
    \/ Event(t)
    \/ CleanupCheck(t)
    \/ Cleanup(t)
    \/ Publish(t)
    \/ PublishMoves(t)
    \/ Sound(t)
    \/ ScanError(t)

\* The program: start_scanner's loop, /fetch requests, and their loops.
Next == manual_fetch \/ \E t \in Threads : Step(t)

Spec == Init /\ [][Next]_vars

\* The program while no /fetch request is made: start_scanner's loop alone.
NextSolo == Step(0)

SpecSolo == Init /\ [][NextSolo]_vars

\* ------------------------------------- ticks that abort in mid-list ---
\* m3 quoted at q, with and without "question".
M3At(q) == MarketIn("m3", TRUE, QuoteRaw(q))
M3NoQuestion(q) == MarketIn("m3", FALSE, QuoteRaw(q))

\* Catalogs whose second event has the malformed market, so that a tick is
\* aborted after its first event was diffed, and the same catalogs well
\* formed.
AbortCatalogs ==
    {<<E1(M1, M2(q2)), E2(m3)>> :
        q2 \in {Q1, Q2}, m3 \in {M3At(Q2), M3NoQuestion(Q1), M3NoQuestion(Q2)}}

\* Line 94 when upstream holds one of these catalogs and answers at once.
FetchAborting(t) ==
    /\ pc[t] = "fetch"
    /\ \E catalog \in AbortCatalogs :
          fetched' = [fetched EXCEPT ![t] = FetchResult(catalog, <<0>>)]
    /\ exhausted' = [exhausted EXCEPT ![t] = FALSE]
    /\ pos' = [pos EXCEPT ![t] = 0]
    /\ Goto(t, "event")
    /\ UNCHANGED <<shared, lock, files, clock, status, now, updated, new_moves, eid,
                   probe>>

NextAbort == Step(0) \/ FetchAborting(0)

SpecAbort == Init /\ [][NextAbort]_vars

\* --------------------------------------------- a run over an old file ---
\* The moves an earlier run left in the moves file: k moves of m2, the last
\* at time 0, the others one second apart before it.
SavedRec == DiffQuote("m2", QuoteFloats(Q2), QuoteFloats(Q1)).rec
SavedMove(ts) == MoveRec(ts, "e1", SavedRec)
SavedMoves(k) == [j \in 1 .. k |-> SavedMove(j - k)]

\* One short of the capacity, and more than the capacity (a file written
\* with a larger MAX_MOVES).
SavedSizes == {MAX_MOVES - 1, MAX_MOVES + 2}

InitHistory ==
    \/ Init
    \/ \E k \in SavedSizes : InitState(save_moves_to_file(SavedMoves(k)), PyNone)

SpecHistory == InitHistory /\ [][NextSolo]_vars

\* ------------------------------------------------ parse_prices alone ---
\* The sequences over S of length at most n.
SeqsUpTo(S, n) == UNION {[1 .. k -> S] : k \in 0 .. n}

RawElems == {ElemNum(400), ElemNumStr(600), ElemBadStr, ElemNull, ElemNaN, ElemBigInt}
RawChars == {ElemNumStr(4), ElemBadStr}

\* The shapes of outcomePrices: an array, JSON text of an array, of a string,
\* of an object, a number or null, these values themselves, and text that is
\* no JSON.
RawInputs ==
    {PyList(l) : l \in SeqsUpTo(RawElems, MaxRawLen)}
    \cup {JsonText(PyList(l)) : l \in SeqsUpTo(RawElems, MaxRawLen)}
    \cup {JsonText(PyStr(c)) : c \in SeqsUpTo(RawChars, MaxRawLen)}
    \cup {PyDict, PyNum, PyNone, JsonText(PyDict), JsonText(PyNum), JsonText(PyNone),
          InvalidJsonText}

InitParse == \E raw \in RawInputs : InitState(NoMovesFile, raw)

\* p = parse_prices(raw)
ParseCall ==
    /\ parse_out = NotCalled
    /\ parse_out' = parse_prices(raw_in)
    /\ UNCHANGED <<shared, lock, files, clock, pc, locals, raw_in, call, diff_in, diff_out,
                   mirror, consumer, news>>

SpecParse == InitParse /\ [][ParseCall]_vars

\* ------------------------------------------- the sound trigger alone ---
\* Lines 199-217 on the new moves of a tick. The moves are those of market
\* m1 of e1 whose yes side went from py to y thousandths with the no side
\* at 0.60: changes of 0.2, 0.3, 1, 5 and 20 points from prices whose
\* differences are exact, and of 0.3 and 5 points from prices whose
\* differences are not (0.400 to 0.403, 0.40 to 0.45), and the move
\* recorded when the yes side is quoted nan.
SoundMove(py, y) ==
    MoveRec(2, "e1",
            Diffed("m1", Pct(Dbl[y]), Pct(Dbl[600]), PctChange(Dbl[y], Dbl[py]), DblZero).rec)
SoundChanges ==
    {<<0, 2>>, <<0, 3>>, <<400, 403>>, <<0, 10>>, <<0, 50>>, <<400, 450>>, <<400, 600>>}
NaNMove == MoveRec(2, "e1", Diffed("m1", Pct(DblNaN), Pct(Dbl[600]), DblNaN, DblZero).rec)
SoundMoves == {SoundMove(c[1], c[2]) : c \in SoundChanges} \cup {NaNMove}
Levels == {"None", "low", "medium", "high"}

\* A tick at clock 2 has published its moves (line 197); status holds what
\* the earlier tick left, with or without a sound_trigger.
InitSound ==
    \E moves \in SeqsUpTo(SoundMoves, MaxNewMoves), earlier \in Levels :
        /\ events_meta = {"e1"}
        /\ events_data = EmptyMap
        /\ last_prices = EmptyMap
        /\ recent_moves = moves
        /\ lock = NoThread
        /\ events_file = NoEventsFile
        /\ moves_file = save_moves_to_file(moves)
        /\ status_file = save_status(StatusRec("Scanning for updates", 1, earlier))
        /\ clock = 2
        /\ pc = [t \in Threads |-> IF t = 0 THEN "sound" ELSE "idle"]
        /\ status = [t \in Threads |->
                       IF t = 0 THEN StatusRec("Scanning for updates", 1, earlier)
                       ELSE StatusRec("", 0, "None")]
        /\ now = [t \in Threads |-> IF t = 0 THEN 2 ELSE 0]
        /\ fetched = [t \in Threads |-> <<>>]
        /\ exhausted = [t \in Threads |-> FALSE]
        /\ pos = [t \in Threads |-> 0]
        /\ updated = [t \in Threads |-> EmptyMap]
        /\ new_moves = [t \in Threads |-> IF t = 0 THEN moves ELSE <<>>]
        /\ eid = [t \in Threads |-> ""]
        /\ raw_in = PyNone
        /\ parse_out = NotCalled
        /\ call = NoCall
        /\ diff_in = NoQuotes
        /\ diff_out = NotDiffed
        /\ mirror = NoMirror
        /\ consumer = NoConsumer
        /\ news = NoNews

SpecSound == InitSound /\ [][Sound(0)]_vars

\* -------------------------------------------- fetch_all_events alone ---
\* A call of fetch_all_events step by step, one action per attempt of line
\* 22. call holds the locals out, offset and attempt, what upstream lists
\* (catalog, as for FetchPages), the page_size argument, the offsets that
\* were asked for so far (asked, one entry per request sent), where the call
\* is (pc: "request" before an attempt, "returned", "raised") and whether
\* it returned through line 40 (gave_up).

\* The page a successful request for offset gets: r.json().
PageAt(catalog, offset, ps) == SubSeq(catalog, offset + 1, Min(offset + ps, Len(catalog)))

\* Lines 31 and 45: the page ends the pagination (an empty page is shorter
\* than page_size too).
ShortPageOrFull(batch, ps) == Len(batch) <= ps
ShortPage(batch, ps) == Len(batch) < ps

\* Line 38: the failed attempt was the last one.
GivesUpLate(attempt, mr) == attempt = mr
GivesUp(attempt, mr) == attempt = mr - 1

\* Upstream lists the events 1 .. n; the page sizes are the small ones and
\* the default.
Listings == {[i \in 1 .. n |-> i] : n \in 0 .. MaxListed}
PageSizes == (1 .. MaxSmallPage) \cup {page_size}

InitFetch ==
    \E catalog \in Listings, ps \in PageSizes :
        /\ InitProgram(NoMovesFile)
        /\ raw_in = PyNone
        /\ parse_out = NotCalled
        /\ call = [NoCall EXCEPT !.pc = "request", !.catalog = catalog, !.page_size = ps]
        /\ diff_in = NoQuotes
        /\ diff_out = NotDiffed
        /\ mirror = NoMirror
        /\ consumer = NoConsumer
        /\ news = NoNews

FetchUnchanged ==
    UNCHANGED <<shared, lock, files, clock, pc, locals, raw_in, parse_out, diff_in, diff_out,
                mirror, consumer, news>>

\* Lines 22-35 when the request succeeds, then lines 45-48: the page is
\* added; a full page moves the offset and starts the attempts of the next
\* page, any other page ends the call.
RequestSucceeds ==
    /\ call.pc = "request"
    /\ LET batch == PageAt(call.catalog, call.offset, call.page_size) IN
       call' = [call EXCEPT
                  !.asked = Append(@, call.offset),
                  !.out = @ \o batch,
                  !.offset = IF ShortPage(batch, call.page_size) THEN @ ELSE @ + call.page_size,
                  !.attempt = IF ShortPage(batch, call.page_size) THEN @ ELSE 0,
                  !.pc = IF ShortPage(batch, call.page_size) THEN "returned" ELSE "request"]
    /\ FetchUnchanged

\* A retry that would not count.
SameAttempt(attempt) == attempt

\* Line 20: `for attempt in range(max_retries)` takes the next value.
NextAttempt(attempt) == attempt + 1

\* Lines 37-43 when the request raises a RequestException: the next attempt
\* of the same page, or return out after the last one.
RequestFails ==
    /\ call.pc = "request"
    /\ call' = IF GivesUp(call.attempt, max_retries)
                 THEN [call EXCEPT !.asked = Append(@, call.offset),
                                   !.pc = "returned", !.gave_up = TRUE]
               ELSE [call EXCEPT !.asked = Append(@, call.offset),
                                 !.attempt = NextAttempt(@)]
    /\ FetchUnchanged

\* Line 24 when the body of a 2xx answer is no JSON and the exception
\* r.json() raises is no RequestException (it is one only in newer versions
\* of requests): it leaves fetch_all_events.
RequestRaises ==
    /\ call.pc = "request"
    /\ call' = [call EXCEPT !.asked = Append(@, call.offset), !.pc = "raised"]
    /\ FetchUnchanged

NextFetch == RequestSucceeds \/ RequestFails \/ RequestRaises
SpecFetch == InitFetch /\ [][NextFetch]_vars

\* The call keeps running: every request comes back (requests.get has
\* timeout=30) and the sleep of line 43 ends.
SpecFetchLive == SpecFetch /\ WF_vars(NextFetch)

\* ---------------------------------------------- the diff of one quote ---
\* Quotes parse_prices can return: each side the float of a price of
\* Catalogs, or nan (float("nan") and the JSON number NaN are accepted).
QuoteInputs == Floats \X Floats

InitDiff ==
    \E q \in QuoteInputs, prev \in QuoteInputs :
        /\ InitProgram(NoMovesFile)
        /\ raw_in = PyNone
        /\ parse_out = NotCalled
        /\ call = NoCall
        /\ diff_in = <<q, prev>>
        /\ diff_out = NotDiffed
        /\ mirror = NoMirror
        /\ consumer = NoConsumer
        /\ news = NoNews

\* Lines 125-150 for y, n = q and py, pn = prev.
DiffCall ==
    /\ diff_out = NotDiffed
    /\ diff_out' = <<DiffQuote("m1", diff_in[1], diff_in[2])>>
    /\ UNCHANGED <<shared, lock, files, clock, pc, locals, raw_in, parse_out, call, diff_in,
                   mirror, consumer, news>>

SpecDiff == InitDiff /\ [][DiffCall]_vars

\* -------------------------------------------------- the files alone ---
\* The market records of the values that are saved: m1 unchanged (both
\* directions the flat marker), m2 after a move, m1 with a nan quote.
FlatRec == DiffQuote("m1", QuoteFloats(Q1), QuoteFloats(Q1)).rec
NaNRec == Diffed("m1", Pct(DblNaN), Pct(Dbl[600]), DblNaN, DblZero).rec
Snapshot(id, mkts) == [id |-> id, markets |-> mkts]

\* What the saves are given: a snapshot set, a list of moves (one of them
\* longer than MAX_MOVES, as a file of a run with a larger capacity is) and
\* a status.
MirrorInputs ==
    {[events |-> EmptyMap, moves |-> <<>>, status |-> StatusRec("Starting scan", 1, "None")],
     [events |-> ("e1" :> Snapshot("e1", <<FlatRec, SavedRec>>)),
      moves |-> <<SavedMove(1)>>, status |-> StatusRec("Updated", 1, "high")],
     [events |-> ("e1" :> Snapshot("e1", <<NaNRec>>)) @@ ("e2" :> Snapshot("e2", <<FlatRec>>)),
      moves |-> <<SavedMove(0), NaNMove>>, status |-> StatusRec("Updated", 2, "None")],
     [events |-> ("e1" :> Snapshot("e1", <<SavedRec>>)),
      moves |-> SavedMoves(MAX_MOVES + 2), status |-> StatusRec("Scan error", 1, "low")]}

\* A process that has just called start_scanner, with no file yet, and the
\* values of one input for the saves.
InitMirror ==
    \E input \in MirrorInputs :
        /\ InitProgram(NoMovesFile)
        /\ raw_in = PyNone
        /\ parse_out = NotCalled
        /\ call = NoCall
        /\ diff_in = NoQuotes
        /\ diff_out = NotDiffed
        /\ mirror = [out |-> <<>>] @@ input
        /\ consumer = NoConsumer
        /\ news = NoNews

\* The three files by name.
Mirrors == {"events", "moves", "status"}
FileOf(f) ==
    IF f = "events" THEN events_file ELSE IF f = "moves" THEN moves_file ELSE status_file
SetFile(f, file) ==
    /\ events_file' = IF f = "events" THEN file ELSE events_file
    /\ moves_file' = IF f = "moves" THEN file ELSE moves_file
    /\ status_file' = IF f = "status" THEN file ELSE status_file

\* The save of file f on its value, when it has returned.
Saved(f) ==
    IF f = "events" THEN save_events_to_file(mirror.events)
    ELSE IF f = "moves" THEN save_moves_to_file(mirror.moves)
    ELSE save_status(mirror.status)

\* What a file is to a reader: missing, just truncated, partly or wholly
\* written.
FileState(file) == IF file.exists THEN file.written ELSE "missing"

\* The load of file f.
Load(f) ==
    IF f = "events" THEN LoadEventsOutcome(events_file)
    ELSE IF f = "moves" THEN LoadMovesOutcome(moves_file)
    ELSE LoadStatusOutcome(status_file)

MirrorUnchanged ==
    UNCHANGED <<shared, lock, clock, pc, locals, raw_in, parse_out, call, diff_in, diff_out,
                consumer, news>>

\* A save in three steps, as another thread or a reader sees it:
\* open(..., 'w') creates or truncates the file (lines 20, 47, 73),
SaveOpens(f) ==
    /\ FileState(FileOf(f)) \in {"missing", "all"}
    /\ SetFile(f, [Saved(f) EXCEPT !.written = "none"])
    /\ UNCHANGED mirror
    /\ MirrorUnchanged

\* json.dump has written a part of the text (lines 21, 48, 74),
SaveWrites(f) ==
    /\ FileState(FileOf(f)) = "none"
    /\ SetFile(f, [Saved(f) EXCEPT !.written = "part"])
    /\ UNCHANGED mirror
    /\ MirrorUnchanged

\* and the `with` block closes the file with the whole text in it.
SaveCloses(f) ==
    /\ FileState(FileOf(f)) \in {"none", "part"}
    /\ SetFile(f, Saved(f))
    /\ UNCHANGED mirror
    /\ MirrorUnchanged

\* The record of a call of the load function of file f: the state it found
\* the file in, whether it returned or raised, and what it returned (in the
\* field of its file; the other two fields are empty).
Loaded(f) ==
    [f |-> f, saw |-> FileState(FileOf(f)), tag |-> Load(f).tag, exc |-> Load(f).exc,
     events |-> IF f = "events" THEN LoadEventsOutcome(events_file).val ELSE EmptyMap,
     moves |-> IF f = "moves" THEN LoadMovesOutcome(moves_file).val ELSE <<>>,
     status |-> IF f = "status" THEN LoadStatusOutcome(status_file).val
                ELSE StatusRec("", 0, "None")]

\* A call of the load function of file f.
LoadCall(f) ==
    /\ mirror' = [mirror EXCEPT !.out = <<Loaded(f)>>]
    /\ UNCHANGED files
    /\ MirrorUnchanged

\* The saves and loads in any order, and the start of scan_loop (lines
\* 31-55) over the files as they are.
NextMirror ==
    \/ \E f \in Mirrors : SaveOpens(f) \/ SaveWrites(f) \/ SaveCloses(f) \/ LoadCall(f)
    \/ Start(0)
    \/ LoadMoves(0)

SpecMirror == InitMirror /\ [][NextMirror]_vars

\* ---------------------------------------------------- the accessors ---
\* Python objects as a heap: an address holds a dict (a function from its
\* keys to cells) or a list (a sequence of cells); a cell is a reference to
\* an address (ref > 0) or a str (ref = 0).
Ref(a) == [ref |-> a, str |-> ""]
Str(s) == [ref |-> 0, str |-> s]

\* The addresses of kalshi_api.events_data and kalshi_api.recent_moves.
EventsAt == 1
MovesAt == 5

\* The Kalshi scanner after a tick that published one event with one
\* market and recorded one move: events_data (1) holds the event record
\* (2), whose "markets" is a list (3) of market records (4); recent_moves
\* (5) holds the move (6).
EngineHeap ==
    <<("KX1" :> Ref(2)),
      ("title" :> Str("t")) @@ ("markets" :> Ref(3)),
      <<Ref(4)>>,
      ("question" :> Str("q")),
      <<Ref(6)>>,
      ("question" :> Str("q"))>>

\* The addresses an object refers to, and those reachable from address a
\* (the graph is at most four references deep).
RefsOf(heap, a) == {heap[a][k].ref : k \in DOMAIN heap[a]} \ {0}
RECURSIVE Reach(_, _, _)
Reach(heap, as, n) ==
    IF n = 0 THEN as ELSE Reach(heap, as \cup UNION {RefsOf(heap, a) : a \in as}, n - 1)
Reachable(heap, a) == Reach(heap, {a}, 4)

\* A process whose Kalshi scanner holds EngineHeap; no caller yet.
InitAccess ==
    /\ InitProgram(NoMovesFile)
    /\ raw_in = PyNone
    /\ parse_out = NotCalled
    /\ call = NoCall
    /\ diff_in = NoQuotes
    /\ diff_out = NotDiffed
    /\ mirror = NoMirror
    /\ consumer = [heap |-> EngineHeap, got |-> 0]
    /\ news = NoNews

AccessUnchanged ==
    UNCHANGED <<shared, lock, files, clock, pc, locals, raw_in, parse_out, call, diff_in,
                diff_out, mirror, news>>

\* dict.copy() and list(...): a new object with the cells of the old one.
ShallowCopy(heap, a) == Append(heap, heap[a])

\* get_events_data (kalshi_api.py lines 676-680): return events_data.copy().
GetEvents ==
    /\ Len(consumer.heap) < Len(EngineHeap) + MaxCopies
    /\ consumer' = [heap |-> ShallowCopy(consumer.heap, EventsAt),
                    got |-> Len(consumer.heap) + 1]
    /\ AccessUnchanged

\* get_recent_moves (lines 682-686): return list(recent_moves).
GetMoves ==
    /\ Len(consumer.heap) < Len(EngineHeap) + MaxCopies
    /\ consumer' = [heap |-> ShallowCopy(consumer.heap, MovesAt),
                    got |-> Len(consumer.heap) + 1]
    /\ AccessUnchanged

\* The caller changes an object it can reach from the value it was given:
\* it empties it (dict.clear(), list.clear()),
CallerClears ==
    /\ consumer.got # 0
    /\ \E a \in Reachable(consumer.heap, consumer.got) :
          /\ DOMAIN consumer.heap[a] # {}
          /\ consumer' = [consumer EXCEPT !.heap[a] = <<>>]
    /\ AccessUnchanged

\* or it overwrites an entry of it (d[k] = "changed").
CallerWrites ==
    /\ consumer.got # 0
    /\ \E a \in Reachable(consumer.heap, consumer.got) :
          \E k \in DOMAIN consumer.heap[a] :
             /\ consumer.heap[a][k] # Str("changed")
             /\ consumer' = [consumer EXCEPT !.heap[a][k] = Str("changed")]
    /\ AccessUnchanged

NextAccess == GetEvents \/ GetMoves \/ CallerClears \/ CallerWrites

SpecAccess == InitAccess /\ [][NextAccess]_vars

\* ============================================================ claims ===
\* The step of thread t is one event of a tick's for loop (lines 95-180).
EventStep(t) ==
    /\ pc[t] = "event"
    /\ pos[t] < Len(fetched[t])
    /\ (pos'[t] # pos[t] \/ fetched'[t] # fetched[t])

\* The event that step works on, and whether a market of it has a quote
\* parse_prices returns.
CurrentEvent(t) == fetched[t][pos[t] + 1]
Parseable(m) == parse_prices(m.outcomePrices).tag = "pair"
QuoteOf(m) ==
    LET p == parse_prices(m.outcomePrices) IN <<p.y, p.n>>

\* The step of thread t appended a move of market id to the history.
MoveAppended(t, id) ==
    \E i \in (Len(recent_moves) + 1) .. Len(recent_moves') :
        /\ recent_moves'[i].market_id = id
        /\ recent_moves'[i].time_ts = now[t]

\* ---------------------------------------------------------------- C1 ---
\* new is old with up to three moves appended, entries dropped from the
\* front only and only as far as the capacity demands.
C1_Appended(old, new) ==
    \E j \in 1 .. 3 :
        LET all == Len(old) + j
            keep == Min(all, MAX_MOVES)
        IN  /\ Len(new) = keep
            /\ \A i \in 1 .. (keep - j) : new[i] = old[i + (all - keep)]

\* new is the newest MAX_MOVES entries of the moves file, in file order.
C1_Reloaded(new) ==
    LET d == load_moves_from_file(moves_file)
        keep == Min(Len(d), MAX_MOVES)
    IN  /\ Len(new) = keep
        /\ \A i \in 1 .. keep : new[i] = d[Len(d) - keep + i]

\* C1: the move history never holds more than MAX_MOVES entries, and every
\* change of it is an append or a reload from the moves file that drops
\* the oldest entries first and keeps the others in order.
C1_HistoryBounded ==
    /\ [](Len(recent_moves) <= MAX_MOVES)
    /\ [][recent_moves' # recent_moves =>
            C1_Appended(recent_moves, recent_moves') \/ C1_Reloaded(recent_moves')]_vars

\* A file of MAX_MOVES - 1 moves was loaded and the ticks at times 2 and 3
\* appended one move each (moves 1..501): the history is moves 2..501.
C1_OldestEvicted ==
    /\ Len(recent_moves) = MAX_MOVES
    /\ recent_moves[1] = SavedMove(3 - MAX_MOVES)
    /\ recent_moves[MAX_MOVES - 2] = SavedMove(0)
    /\ recent_moves[MAX_MOVES - 1].time_ts = 2
    /\ recent_moves[MAX_MOVES].time_ts = 3

\* ---------------------------------------------------------------- C2 ---
\* C2: in a steady-state tick, each market with a parseable quote gets a
\* Move appended if and only if last_prices has an entry for it and the
\* quote differs from that entry.
C2_MoveIffChanged ==
    [][\A t \in Threads : EventStep(t) =>
         \A k \in 1 .. Len(CurrentEvent(t).markets) :
            LET m == CurrentEvent(t).markets[k] IN
            Parseable(m) =>
               (MoveAppended(t, m.id) <=>
                  (m.id \in DOMAIN last_prices /\ last_prices[m.id] # QuoteOf(m)))]_vars

\* ---------------------------------------------------------------- C3 ---
\* The status texts of the two except blocks (lines 80 and 223).
ErrorStatuses == {"Error during initial scan", "Scan error"}

\* C3: a tick whose fetch gave up after max_retries failures appends no
\* move, replaces no snapshot, ends with an error status and leaves
\* status.last_update as it was.
C3_FailedFetchKeepsStatus ==
    [][\A t \in Threads :
         (pc[t] = "sound" /\ pc'[t] # "sound" /\ exhausted[t]) =>
            /\ new_moves[t] = <<>>
            /\ updated[t] = EmptyMap
            /\ status'[t].status \in ErrorStatuses
            /\ status'[t].last_update = status[t].last_update]_vars

\* ---------------------------------------------------------------- C4 ---
\* The events of a fetched list that have no market with a parseable quote.
ZeroParseable(evs) ==
    {evs[i].id : i \in {j \in 1 .. Len(evs) :
                          \A k \in 1 .. Len(evs[j].markets) : ~Parseable(evs[j].markets[k])}}

\* C4: when a tick completes (lines 190-194), no event that the tick's
\* fetch reported without a parseable market is in events_data or in the
\* events file.
C4_EmptyEventDisappears ==
    [][\A t \in Threads :
         (pc[t] = "event" /\ pc'[t] = "publish_moves") =>
            \A e \in ZeroParseable(fetched[t]) :
               /\ e \notin DOMAIN events_data'
               /\ e \notin DOMAIN load_events_from_file(events_file')]_vars

\* ---------------------------------------------------------------- C5 ---
\* x is an entry of the sequence s.
Contains(s, x) == \E i \in 1 .. Len(s) : s[i] = x

\* C5: no reader sees a tick half published: while the lock is free the
\* history holds none of the moves of a tick that has not replaced the
\* snapshot set yet, and the events file never holds a tick's snapshot set
\* while the moves file lacks that tick's moves.
C5_PublishAtomic ==
    \A t \in Threads :
       /\ (lock = NoThread /\ pc[t] \in {"event", "cleanup_check", "cleanup"}) =>
             \A i \in 1 .. Len(new_moves[t]) : ~Contains(recent_moves, new_moves[t][i])
       /\ (DOMAIN updated[t] # {} /\ events_file = save_events_to_file(updated[t])) =>
             \A i \in 1 .. Len(new_moves[t]) :
                Contains(load_moves_from_file(moves_file), new_moves[t][i])

\* ---------------------------------------------------------------- C6 ---
\* C6: whatever the number of /fetch requests, at most one thread is inside
\* the perpetual loop of scan_loop.
C6_OnePerpetualLoop == Cardinality({t \in Threads : pc[t] \in LoopPcs}) <= 1

\* ---------------------------------------------------------------- C7 ---
\* C7: front to back, the time_ts of the moves in the history never
\* decreases.
C7_HistoryChronological ==
    \A i, j \in 1 .. Len(recent_moves) :
        i < j => recent_moves[i].time_ts <= recent_moves[j].time_ts

\* ---------------------------------------------------------------- C8 ---
\* C8: no exception of a tick ends a scan loop: no thread leaves scan_loop,
\* and a thread in the handler of line 221 writes the error status and
\* goes on to the sleep of the next iteration.
C8_TickExceptionCaught ==
    /\ [](\A t \in Threads : pc[t] # "dead")
    /\ [][\A t \in Threads :
            (pc[t] = "except" /\ pc'[t] # "except") =>
               /\ pc'[t] = "sleep"
               /\ status'[t].status = "Scan error"
               /\ status_file' = save_status(status'[t])]_vars

\* A thread whose tick raised is at the sleep of its next iteration with
\* the error in its status.
C8_LoopGoesOn == \E t \in Threads : pc[t] = "sleep" /\ status[t].status = "Scan error"

\* ---------------------------------------------------------------- C9 ---
\* A market of a response is malformed: its payload is not a quote or it
\* lacks "question".
Malformed(m) == ~Parseable(m) \/ ~m.has_question

\* C9: a malformed market is skipped alone: the event's step raises
\* nothing and every well-formed market of the event is diffed, its quote
\* written to last_prices.
C9_BadMarketSkippedAlone ==
    [][\A t \in Threads : EventStep(t) =>
         /\ pc'[t] \notin {"except", "dead"}
         /\ \A k \in 1 .. Len(CurrentEvent(t).markets) :
               LET m == CurrentEvent(t).markets[k] IN
               ~Malformed(m) =>
                  (m.id \in DOMAIN last_prices' /\ last_prices'[m.id] = QuoteOf(m))]_vars

\* --------------------------------------------------------------- C10 ---
\* float(raw[0]), float(raw[1]) both give finite floats.
FirstTwoFinite(val) ==
    /\ val.t \in {"list", "pystr"}
    /\ Len(val.elems) >= 2
    /\ \A i \in 1 .. 2 : val.elems[i].t \in {"num", "numstr"}

\* The value a raw payload holds: itself, or what its JSON text decodes to.
Decoded(raw) ==
    IF raw.t = "text" THEN [t |-> raw.inner, inner |-> "", elems |-> raw.elems] ELSE raw

\* C10: parse_prices raises nothing; it returns the first two elements as
\* a pair when both are finite floats, and None otherwise.
C10_ParseNeverRaises ==
    parse_out.tag # "not called" =>
       IF FirstTwoFinite(Decoded(raw_in))
         THEN /\ parse_out.tag = "pair"
              /\ parse_out.y = [t |-> "finite", v |-> Decoded(raw_in).elems[1].v]
              /\ parse_out.n = [t |-> "finite", v |-> Decoded(raw_in).elems[2].v]
         ELSE parse_out.tag = "None"

\* --------------------------------------------------------------- C11 ---
\* The signed change new - previous of one side, from the two quotes
\* themselves (v is the price in thousandths): positive, negative, zero, or
\* nan when a side is nan (nan is none of the three).
SignedChange(f, pf) ==
    IF f.t = "nan" \/ pf.t = "nan" THEN "nan"
    ELSE IF f.v > pf.v THEN "positive"
    ELSE IF f.v < pf.v THEN "negative"
    ELSE "zero"

\* The direction rec carries for a side (1: yes, 2: no).
DirOf(rec, side) == IF side = 1 THEN rec.ydir ELSE rec.ndir

\* C11: for each side, the recorded direction is UP iff the signed change
\* is strictly positive, DOWN iff it is strictly negative, and the flat
\* marker iff it is exactly zero.
C11_DirectionIffSign ==
    diff_out # NotDiffed =>
       \A side \in 1 .. 2 :
          LET c == SignedChange(diff_in[1][side], diff_in[2][side])
              d == DirOf(diff_out[1].rec, side)
          IN  /\ d = "UP" <=> c = "positive"
              /\ d = "DOWN" <=> c = "negative"
              /\ d = "FLAT" <=> c = "zero"

\* --------------------------------------------------------------- C12 ---
\* A quote with its sides exchanged.
Swapped(q) == <<q[2], q[1]>>

\* m is the greater of the magnitudes a and b: it is one of them and
\* neither is greater than it.
GreaterOf(m, a, b) == m \in {a, b} /\ ~FGt(a, m) /\ ~FGt(b, m)

\* C12: max_move of a market record equals max(|yes_change|, |no_change|),
\* is never negative and is the same when the two sides are exchanged; the
\* max_move of the Move built from the record equals the record's.
C12_MaxMoveSymmetric ==
    diff_out # NotDiffed =>
       LET d == diff_out[1]
           s == DiffQuote("m1", Swapped(diff_in[1]), Swapped(diff_in[2]))
       IN  /\ GreaterOf(d.rec.max_move, FAbs(d.dy), FAbs(d.dn))
           /\ ~FNegative(d.rec.max_move)
           /\ s.rec.max_move = d.rec.max_move
           /\ MoveRec(1, "e1", d.rec).max_move = d.rec.max_move

\* --------------------------------------------------------------- C13 ---
\* The float 5.0.
FivePoints == Dbl[5000]

\* A step of thread t appended a move of market id with yd = 5, nd = 5,
\* ydir = UP, ndir = DOWN and magnitude 5.
FivePointMoveAppended(t, id) ==
    \E i \in (Len(recent_moves) + 1) .. Len(recent_moves') :
        LET mv == recent_moves'[i] IN
        /\ mv.market_id = id
        /\ mv.time_ts = now[t]
        /\ mv.yd = FivePoints
        /\ mv.nd = FivePoints
        /\ mv.ydir = "UP"
        /\ mv.ndir = "DOWN"
        /\ mv.max_move = FivePoints

\* C13: yd and nd are the absolute percentage-point changes. A market
\* whose last quote was (0.40, 0.60) and that is quoted (0.45, 0.55) in a
\* tick gets one Move with yd = 5, nd = 5, ydir = UP, ndir = DOWN and
\* magnitude 5; quoted (0.45, 0.55) again in the next tick it gets none.
C13_FivePointScenario ==
    [][\A t \in Threads :
         (EventStep(t) /\ pc'[t] \notin {"except", "dead"}) =>
            \A k \in 1 .. Len(CurrentEvent(t).markets) :
               LET m == CurrentEvent(t).markets[k] IN
               (Parseable(m) /\ QuoteOf(m) = QuoteFloats(Q2) /\ m.id \in DOMAIN last_prices) =>
                  /\ last_prices[m.id] = QuoteFloats(Q1) => FivePointMoveAppended(t, m.id)
                  /\ last_prices[m.id] = QuoteFloats(Q2) => ~MoveAppended(t, m.id)]_vars

\* --------------------------------------------------------------- C14 ---
\* How many requests were sent for offset o.
Asked(o) == Cardinality({i \in 1 .. Len(call.asked) : call.asked[i] = o})

\* C14: fetch_all_events requests each page at most max_retries = 3 times;
\* the attempt counter restarts for every page (before an attempt it is the
\* number of requests sent for the current page so far); a call that gave
\* up did so on the third failure of a page and returned, without raising,
\* the events of the pages before it in page order.
C14_ThreeAttemptsPerPage ==
    /\ \A i \in 1 .. Len(call.asked) : Asked(call.asked[i]) <= 3
    /\ call.pc = "request" => call.attempt = Asked(call.offset)
    /\ call.gave_up =>
          /\ call.pc = "returned"
          /\ Asked(call.offset) = 3
          /\ call.out = SubSeq(call.catalog, 1, call.offset)

\* The call gave up on its second page; the first page was added after two
\* failed attempts.
C14_GaveUpOnSecondPage ==
    /\ call.gave_up
    /\ call.offset = call.page_size
    /\ Asked(0) = 3
    /\ call.out # <<>>

\* --------------------------------------------------------------- C15 ---
\* C15: a call that returns without having given up returns the pages at
\* the offsets 0, page_size, 2 * page_size, ... up to and including the
\* first page shorter than page_size, each once (this is the whole list
\* upstream holds, in order); the offset is always a multiple of page_size
\* and moves only by a successful request for a full page.
C15_PagesConcatenated ==
    [][/\ (call'.pc = "returned" /\ ~call'.gave_up) => call'.out = call.catalog
       /\ call'.offset # call.offset =>
             /\ call'.offset = call.offset + call.page_size
             /\ Len(PageAt(call.catalog, call.offset, call.page_size)) = call.page_size
             /\ call'.out = call.out \o PageAt(call.catalog, call.offset, call.page_size)
       /\ call'.out = SubSeq(call.catalog, 1, Len(call'.out))]_vars

\* The call returned three pages, the last one short, after a failed
\* attempt of the second.
C15_ThreePagesReturned ==
    /\ call.pc = "returned"
    /\ ~call.gave_up
    /\ call.offset = 2 * call.page_size
    /\ Len(call.out) > call.offset
    /\ Asked(call.page_size) = 2

\* --------------------------------------------------------------- C16 ---
\* C16: in a tick whose fetch gave up on a page (the first or a later
\* one), no step of the tick changes the snapshot set, the move history or
\* the last-price table.
C16_FailedFetchKeepsState ==
    [][\A t \in Threads :
         (exhausted[t] /\ pc[t] \in LoopPcs /\ pc'[t] # pc[t]) =>
            /\ events_data' = events_data
            /\ recent_moves' = recent_moves
            /\ last_prices' = last_prices]_vars

\* --------------------------------------------------------------- C17 ---
\* The step of thread t ends the for loop of a tick without an exception
\* and enters the publication of lines 190-197.
TickCompletes(t) == pc[t] = "event" /\ pc'[t] = "publish_moves"

\* C17: when a tick completes, last_prices holds, for every market of the
\* tick's fetch that has a parseable quote, the quote of that tick.
C17_LastPricesAreTickQuotes ==
    [][\A t \in Threads :
         TickCompletes(t) =>
            \A i \in 1 .. Len(fetched[t]) :
               \A k \in 1 .. Len(fetched[t][i].markets) :
                  LET m == fetched[t][i].markets[k] IN
                  Parseable(m) =>
                     (m.id \in DOMAIN last_prices /\ last_prices[m.id] = QuoteOf(m))]_vars

\* --------------------------------------------------------------- C18 ---
\* The events of a fetched list that have a market with a parseable quote.
WithParseable(evs) ==
    {evs[i].id : i \in {j \in 1 .. Len(evs) :
                          \E k \in 1 .. Len(evs[j].markets) : Parseable(evs[j].markets[k])}}

\* C18: when a tick completes, the keys of the snapshot set are exactly the
\* events of the tick's fetch that have at least one parseable market (none
\* when the fetch has no such event).
C18_SnapshotRebuilt ==
    [][\A t \in Threads :
         TickCompletes(t) => DOMAIN events_data' = WithParseable(fetched[t])]_vars

\* --------------------------------------------------------------- C19 ---
\* The magnitudes of moves that are numbers, and the largest of them.
Magnitudes(moves) ==
    {g \in {moves[i].max_move : i \in 1 .. Len(moves)} : g.k = "fin"}
LargestMagnitude(moves) ==
    CHOOSE g \in Magnitudes(moves) : \A h \in Magnitudes(moves) : ~FGt(h, g)

\* The level of a magnitude g: high above 5, medium above 1, low above 0.3.
LevelOf(g) ==
    IF FGt(g, Dbl[5000]) THEN "high"
    ELSE IF FGt(g, Dbl[1000]) THEN "medium"
    ELSE IF FGt(g, Dbl[300]) THEN "low"
    ELSE "None"

\* C19: the status a completed tick leaves carries the level of the
\* largest magnitude among the tick's new moves, and no sound_trigger when
\* there are no new moves or the magnitude is at most 0.3, whatever trigger
\* the status carried before.
C19_LevelOfLargestMove ==
    [][\A t \in Threads :
         (pc[t] = "sound" /\ pc'[t] = "sleep") =>
            status'[t].sound_trigger =
               (IF Magnitudes(new_moves[t]) = {} THEN "None"
                ELSE LevelOf(LargestMagnitude(new_moves[t])))]_vars

\* --------------------------------------------------------------- C20 ---
\* The step of thread u is one event of the seed's for loop (lines 57-72):
\* it writes baseline quotes to last_prices without a delta or a move.
SeedStep(u) ==
    /\ pc[u] = "seed_event"
    /\ pos[u] < Len(fetched[u])
    /\ (pos'[u] # pos[u] \/ fetched'[u] # fetched[u])

\* Thread t has started a steady-state tick: it is inside one, or between
\* two (its status is no longer the one the seed left).
TickStarted(t) ==
    /\ pc[t] \in LoopPcs
    /\ (pc[t] = "sleep" =>
          status[t].status \notin {"Initial scan completed", "Error during initial scan"})

\* C20: once a steady-state tick has started, no step of the seed phase is
\* executed on the shared state again, also after GET /fetch.
C20_SeedsOnce ==
    [][(\E t \in Threads : TickStarted(t)) => \A u \in Threads : ~SeedStep(u)]_vars

\* --------------------------------------------------------------- C21 ---
\* The step of thread t ends the seed's for loop without an exception
\* (lines 74-77); fetched[t] is the list the seed went through.
SeedCompletes(t) ==
    pc[t] = "seed_event" /\ pos[t] = Len(fetched[t]) /\ pc'[t] = "sleep"

\* A market record with zero-valued deltas: both directions flat, both
\* magnitudes 0.
ZeroDeltas(rec) ==
    /\ rec.ydir = "FLAT" /\ rec.ndir = "FLAT"
    /\ IsZero(rec.yd) /\ IsZero(rec.nd) /\ IsZero(rec.max_move)

\* C21: when the initial seed completes, the snapshot set has a record for
\* every fetched event with at least one parseable market, and every market
\* of these records carries zero-valued deltas.
C21_SeedSnapshots ==
    [][\A t \in Threads :
         SeedCompletes(t) =>
            \A e \in WithParseable(fetched[t]) :
               /\ e \in DOMAIN events_data'
               /\ \A k \in 1 .. Len(events_data'[e].markets) :
                     ZeroDeltas(events_data'[e].markets[k])]_vars

\* --------------------------------------------------------------- C22 ---
\* C22: when the initial seed completes, the move history is what was
\* loaded from the moves file (no move was recorded), last_prices holds the
\* fetched quote of every market with a parseable quote, and a market with
\* an unparseable quote has no entry.
C22_SeedBaseline ==
    [][\A t \in Threads :
         SeedCompletes(t) =>
            /\ recent_moves' = DequeFrom(load_moves_from_file(moves_file))
            /\ \A i \in 1 .. Len(fetched[t]) :
                  \A k \in 1 .. Len(fetched[t][i].markets) :
                     LET m == fetched[t][i].markets[k] IN
                     IF Parseable(m)
                       THEN m.id \in DOMAIN last_prices' /\ last_prices'[m.id] = QuoteOf(m)
                       ELSE m.id \notin DOMAIN last_prices']_vars

\* --------------------------------------------------------------- C23 ---
\* The places of scan_loop that are inside a `with lock` block: the body of
\* the seed's for loop (line 59), of the tick's for loop (line 96), the
\* cleanup (line 184) and the publication (line 190).
LockedPcs == {"seed_event", "event", "cleanup", "publish_moves"}

\* The step is a step of thread t.
StepOf(t) == pc'[t] # pc[t] \/ pos'[t] # pos[t]

\* C23: a step that changes events_meta, events_data, last_prices or
\* recent_moves is made by a thread inside a `with lock` block, the
\* rebinding to what the files hold included.
C23_WritesUnderLock ==
    [][shared' # shared => \E t \in Threads : StepOf(t) /\ pc[t] \in LockedPcs]_vars

\* --------------------------------------------------------------- C24 ---
\* C24: a move of the history stays in it, unchanged, as long as it is not
\* the oldest entry of a full history: a step removes an entry only from
\* the front and only when the history it leaves is full.
C24_MovesStay ==
    [][\A i \in 1 .. Len(recent_moves) :
         Contains(recent_moves', recent_moves[i])
         \/ (Len(recent_moves') = MAX_MOVES
             /\ \A j \in 1 .. i : ~Contains(recent_moves', recent_moves[j]))]_vars

\* --------------------------------------------------------------- C25 ---
\* The step of thread t is a call of fetch_all_events (line 57 or 94): the
\* requests of all its pages.
Requests(t) == pc[t] \in {"seed_fetch", "fetch"} /\ pc'[t] # pc[t]

\* C25: a thread makes its requests while it does not hold the lock; the
\* list it works through under the lock is complete before the first
\* `with lock` (it gets no further event afterwards); and a thread that
\* holds the lock is in the diff, cleanup or publish steps.
C25_NoRequestUnderLock ==
    /\ [][\A t \in Threads :
            /\ Requests(t) => lock # t /\ lock' # t
            /\ (StepOf(t) /\ pc[t] \in LockedPcs) =>
                  fetched'[t] \in {fetched[t], <<>>}]_vars
    /\ [](\A t \in Threads : lock = t => pc[t] \in LockedPcs)

\* A thread is inside the publication of a tick whose fetch took two pages,
\* holding the lock, while the other thread is about to make its requests.
C25_PublishingWhileOtherFetches ==
    \E t \in Threads : \E u \in Threads \ {t} :
        /\ lock = t /\ pc[t] = "publish_moves"
        /\ DOMAIN updated[t] = {"e1", "e2"}
        /\ pc[u] = "fetch"

\* --------------------------------------------------------------- C26 ---
\* The newest MAX_MOVES entries of a list, in the order of the list.
Newest(moves) ==
    LET keep == Min(Len(moves), MAX_MOVES) IN
    [i \in 1 .. keep |-> moves[Len(moves) - keep + i]] \o <<>>

\* The step is a call of the load function of file f on the file that the
\* save of f has written.
LoadsSaved(f) ==
    /\ FileOf(f) = Saved(f)
    /\ mirror'.out # mirror.out
    /\ mirror'.out[1].f = f

\* The step is lines 45-55 of a scan loop that starts with the moves file a
\* save has written.
StartsWithSaved ==
    pc[0] = "load_moves" /\ pc'[0] # "load_moves" /\ moves_file = Saved("moves")

DefaultStatuses ==
    {StatusRec("Not started", 0, "None"), StatusRec("Error loading status", 0, "None")}

\* The step is a call of a load function on a file that is missing, empty
\* (just truncated by a save) or partly written.
LoadsUnfinished ==
    /\ mirror'.out # mirror.out
    /\ mirror'.out[1].saw \in {"missing", "none", "part"}

\* C27: no call of load_events_from_file, load_moves_from_file or
\* load_status raises, and on a file that is missing, empty or partly
\* written by a concurrent save they return {}, [] and a default status.
C27_LoadNeverRaises ==
    [][/\ mirror'.out # mirror.out => mirror'.out[1].tag = "value"
       /\ LoadsUnfinished =>
             /\ mirror'.out[1].events = EmptyMap
             /\ mirror'.out[1].moves = <<>>
             /\ mirror'.out[1].f = "status" => mirror'.out[1].status \in DefaultStatuses]_vars

\* load_moves_from_file ran while a save had written a part of a list of
\* two moves, and returned [].
C27_PartFileReadAsEmpty ==
    /\ Len(mirror.moves) = 2
    /\ mirror.out # <<>>
    /\ mirror.out[1].f = "moves" /\ mirror.out[1].saw = "part"
    /\ mirror.out[1].tag = "value" /\ mirror.out[1].moves = <<>>

\* --------------------------------------------------------------- C28 ---
\* The step is a change the caller makes to an object it reached from the
\* value an accessor returned.
CallerMutates == consumer.got # 0 /\ consumer'.got = consumer.got /\ consumer'.heap # consumer.heap

\* The objects that make up the engine's events_data and recent_moves.
EngineObjects(heap) == Reachable(heap, EventsAt) \cup Reachable(heap, MovesAt)

\* C28: whatever a caller does to the value get_events_data or
\* get_recent_moves returned, nested records and lists included, no object
\* of the engine's events_data or recent_moves changes.
C28_AccessorsReturnCopies ==
    [][CallerMutates =>
         \A a \in EngineObjects(consumer.heap) : consumer'.heap[a] = consumer.heap[a]]_vars

\* --------------------------------------------------------------- C29 ---
\* The moves of market id that the step appended to the history.
AppendedFor(id) ==
    Cardinality({i \in (Len(recent_moves) + 1) .. Len(recent_moves') :
                    recent_moves'[i].market_id = id})

BeforePublish == {"fetch", "event", "cleanup_check", "cleanup", "except"}

\* C30: a tick that an exception aborts never reached the saves of lines
\* 194 and 197: the handler is entered only from the places before line
\* 190, and no step a loop makes there writes the events file or the moves
\* file; the handler writes the "Scan error" text and leaves last_update,
\* which is older than the aborted tick, as it was.
C30_AbortedTickKeepsStamp ==
    [][\A t \in Threads :
         /\ (StepOf(t) /\ pc'[t] \in BeforePublish) =>
               /\ pc[t] \in BeforePublish \cup {"sleep"}
               /\ events_file' = events_file
               /\ moves_file' = moves_file
         /\ (pc[t] = "except" /\ pc'[t] # "except") =>
               /\ events_file' = events_file
               /\ moves_file' = moves_file
               /\ status'[t].status = "Scan error"
               /\ status'[t].last_update = status[t].last_update
               /\ status'[t].last_update < now[t]
               /\ load_status(status_file') = status'[t]]_vars

\* The only loop completed the tick of time 2 and its tick of time 3 was
\* aborted: the status says "Scan error" and is stamped 2.
C30_StampOfCompletedTick ==
    /\ pc[0] = "sleep" /\ pc[1] = "idle"
    /\ clock = 3
    /\ status[0].status = "Scan error"
    /\ status[0].last_update = 2
    /\ LoadStatus(status_file.data).last_update = 2

\* --------------------------------------------------------------- C31 ---
\* C31: whether the tick is aborted or not, the step that diffs an event
\* appends at most one Move for a market, appends it exactly when it
\* advances last_prices from another quote to the fetched one, and otherwise
\* leaves the market's entry as it was; a step that is not aborted advances
\* every parseable market. So the tick after an aborted one finds the old
\* quote for just the markets the aborted tick did not reach.
C31_MoveIffAdvanced ==
    [][\A t \in Threads : EventStep(t) =>
         \A k \in 1 .. Len(CurrentEvent(t).markets) :
            LET m == CurrentEvent(t).markets[k]
                known == m.id \in DOMAIN last_prices
                changed == known /\ last_prices[m.id] # QuoteOf(m)
                advanced == m.id \in DOMAIN last_prices' /\ last_prices'[m.id] = QuoteOf(m)
            IN  IF Parseable(m) /\ changed
                  THEN /\ AppendedFor(m.id) = (IF advanced THEN 1 ELSE 0)
                       /\ advanced \/ last_prices'[m.id] = last_prices[m.id]
                       /\ pc'[t] \notin {"except", "dead"} => advanced
                  ELSE /\ AppendedFor(m.id) = 0
                       /\ known => last_prices'[m.id] = last_prices[m.id]]_vars

\* The tick of time 2 was aborted at e2 (no tick has stamped the status)
\* after the move of m2 was recorded; the tick of time 3 has diffed both
\* events and recorded the move of m3 and no second move of m2.
C31_NextTickRecordsTheRest ==
    /\ pc[0] = "event" /\ pos[0] = 2 /\ now[0] = 3
    /\ status[0].last_update < 2
    /\ Len(recent_moves) = 2
    /\ recent_moves[1].market_id = "m2" /\ recent_moves[1].time_ts = 2
    /\ recent_moves[2].market_id = "m3" /\ recent_moves[2].time_ts = 3

\* --------------------------------------------------------------- C32 ---
\* The event that the step of thread t diffs has a parseable quote of
\* market id.
QuotedInStep(t, id) ==
    /\ EventStep(t)
    /\ \E k \in 1 .. Len(CurrentEvent(t).markets) :
          CurrentEvent(t).markets[k].id = id /\ Parseable(CurrentEvent(t).markets[k])

\* C32: no step removes an entry of last_prices; a step of a tick changes
\* the entry of a market only when the event it diffs quotes that market;
\* and a market that has an entry is diffed against the entry, a Move being
\* recorded if and only if the quote differs from it.
C32_LastSeenQuoteKept ==
    [][/\ \A id \in DOMAIN last_prices : id \in DOMAIN last_prices'
       /\ \A t \in Threads : (StepOf(t) /\ pc[t] # "seed_event") =>
             \A id \in DOMAIN last_prices :
                ~QuotedInStep(t, id) => last_prices'[id] = last_prices[id]
       /\ \A t \in Threads : (EventStep(t) /\ pc'[t] \notin {"except", "dead"}) =>
             \A k \in 1 .. Len(CurrentEvent(t).markets) :
                LET m == CurrentEvent(t).markets[k] IN
                (Parseable(m) /\ m.id \in DOMAIN last_prices) =>
                   (MoveAppended(t, m.id) <=> last_prices[m.id] # QuoteOf(m))]_vars

\* m2 was seeded at (0.40, 0.60), the tick of time 2 completed without any
\* event that has a quoted market (no snapshot was published), and the tick
\* of time 3 recorded the move of m2 to (0.45, 0.55).
C32_MoveAfterAbsence ==
    /\ pc[0] = "event" /\ pc[1] = "idle"
    /\ now[0] = 3
    /\ status[0].last_update = 2
    /\ DOMAIN events_data = {}
    /\ Len(recent_moves) = 1
    /\ recent_moves[1].market_id = "m2" /\ recent_moves[1].time_ts = 3
    /\ last_prices["m2"] = QuoteFloats(Q2)

\* --------------------------------------------------------------- C33 ---
\* The record of market id in the snapshot that the step of thread t built
\* for event e has zero deltas.
ZeroRecBuilt(t, e, id) ==
    /\ e \in DOMAIN updated'[t]
    /\ \E i \in 1 .. Len(updated'[t][e].markets) :
          /\ updated'[t][e].markets[i].id = id
          /\ ZeroDeltas(updated'[t][e].markets[i])

C34_LastUpdateNeverDecreases ==
    [][load_status(status_file').last_update >= load_status(status_file).last_update]_vars

\* --------------------------------------------------------------- C35 ---
\* The most requests a call can send: max_retries for every full page and
\* for the page after the last full one.
MostRequests == max_retries * (Len(call.catalog) \div call.page_size + 1)

\* C35: every call of fetch_all_events ends. A step leaves the call
\* running only after a full page (the offset moves on) or after a failed
\* attempt that is not the third of its page; so a short or empty page ends
\* it, the third failure of a page ends it, and the requests it sends are
\* bounded by the number of pages upstream holds.
C35_FetchTerminates ==
    /\ <>(call.pc \in {"returned", "raised"})
    /\ [](Len(call.asked) <= MostRequests)
    /\ [][(call'.pc = "request" /\ call' # call) =>
             \/ /\ call'.offset = call.offset + call.page_size
                /\ Len(PageAt(call.catalog, call.offset, call.page_size)) = call.page_size
                /\ call'.attempt = 0
             \/ /\ call'.offset = call.offset
                /\ call'.attempt = call.attempt + 1
                /\ call'.attempt < max_retries]_vars

\* The call returned the whole list although the full page and the empty
\* page after it each failed twice before they were answered.
C35_ReturnedAfterFailures ==
    /\ call.pc = "returned" /\ ~call.gave_up
    /\ call.offset = call.page_size
    /\ Asked(0) = max_retries
    /\ Asked(call.page_size) = max_retries
    /\ call.out = call.catalog

\* ------------------------------------------------- the news service ---
\* services/tree_of_alpha_service.py. A thread's step is one of the pieces
\* between the places where the thread can have to wait: the lock of line
\* 35 and the start of another thread.
NewsUnchanged ==
    UNCHANGED <<shared, lock, files, clock, pc, locals, raw_in, parse_out, call, diff_in,
                diff_out, mirror, consumer>>

\* The files NEWS_FILE can be when the class is imported: none, or what an
\* earlier run saved, which is a list of at most MAX_NEWS_ITEMS items of
\* different ids.
SavedNews(k) == [i \in 1..k |-> NewsItem(TRUE, GivenId(i))]
SavedNewsSizes == {2, MAX_NEWS_ITEMS}
NewsFiles == {NoNewsFile} \cup {NewsFileOf(SavedNews(k)) : k \in SavedNewsSizes}

\* The messages the socket delivers: "ping"; a text that is no JSON; the
\* login reply; a JSON value that is_valid_news_message (lines 47-67)
\* turns down; a news dict with an '_id' that a saved item has or that none
\* has, with the '_id' null, or with no '_id'.
FeedIds == {1, MAX_NEWS_ITEMS + 1}
Message(kind, has_id, id) == [kind |-> kind, has_id |-> has_id, id |-> id]
Messages ==
    {Message(k, FALSE, PyNoneId) : k \in {"ping", "not json", "login", "not news", "news"}}
        \cup {Message("news", TRUE, GivenId(n)) : n \in FeedIds}
        \cup {Message("news", TRUE, PyNoneId)}

\* What time.time() gives the service, in milliseconds and in seconds.
Millis == {1}
Seconds == {1}

Me(a) == news.agent[a]

\* Thread.is_alive(): started and not ended; connect_websocket does not end
\* while _stop_event is clear.
IsAlive(w) == w # NoWorker /\ news.agent[w].pc \notin {"unborn", "created"}

\* Lines 287-292 of start_scanner: the test of _thread and the return of
\* line 289, or _stop_event.clear().
SsCheck(c) ==
    /\ Me(c).pc = "idle"
    /\ IF IsAlive(news.thread)
        THEN news' = news
        ELSE news' = [news EXCEPT !.agent[c].pc = "ss_create"]
    /\ NewsUnchanged

\* Line 294: a new Thread object is bound to cls._thread.
SsCreate(c) ==
    /\ Me(c).pc = "ss_create"
    /\ \E w \in Workers :
        /\ Me(w).pc = "unborn"
        /\ \A v \in Workers : v < w => Me(v).pc # "unborn"
        /\ news' = [news EXCEPT !.thread = w, !.agent[w].pc = "created",
                                !.agent[c].pc = "ss_start"]
    /\ NewsUnchanged

\* Line 295: cls._thread.start(), of the object cls._thread is now; start()
\* of a thread that was started raises RuntimeError to the caller.
SsStart(c) ==
    /\ Me(c).pc = "ss_start"
    /\ IF Me(news.thread).pc = "created"
        THEN news' = [news EXCEPT !.agent[news.thread].pc = "load", !.agent[c].pc = "idle"]
        ELSE news' = [news EXCEPT !.agent[c].pc = "idle"]
    /\ NewsUnchanged

\* connect_websocket calls load_news_from_file (line 224); lines 86-88 and
\* 93-95: the file is read if it is there.
LoadRead(w) ==
    /\ Me(w).pc = "load"
    /\ IF news.file.exists
        THEN news' = [news EXCEPT !.agent[w].pc = "load_assign",
                                  !.agent[w].loaded = LoadNewsList(news.file)]
        ELSE news' = [news EXCEPT !.agent[w].pc = "run"]
    /\ NewsUnchanged

\* Lines 89-90: under the lock, the list read becomes the news list.
LoadAssign(w) ==
    /\ Me(w).pc = "load_assign"
    /\ news.lock = Unlocked
    /\ news' = [news EXCEPT !.items = Me(w).loaded, !.agent[w].pc = "run",
                            !.agent[w].loaded = <<>>]
    /\ NewsUnchanged

\* Lines 134-135: a dict with no '_id' key is given one.
WithId(msg, ms) == IF msg.has_id THEN NewsItem(TRUE, msg.id) ELSE NewsItem(TRUE, NewsId(ms))

\* on_message up to the lock (lines 104-139): the returns of lines 110, 121
\* and 131, or the dict with its '_id'.
Receive(w, msg, ms) ==
    /\ Me(w).pc = "run"
    /\ IF msg.kind = "news"
        THEN news' = [news EXCEPT !.agent[w].pc = "om_lock", !.agent[w].data = WithId(msg, ms)]
        ELSE news' = news
    /\ NewsUnchanged

\* An append with no test of the ids.
NoDuplicateCheck(items, data) == FALSE

\* Line 143: any(item.get('_id') == data.get('_id') for item in ...).
IsDuplicate(items, data) == \E i \in 1..Len(items) : Get_id(items[i]) = Get_id(data)

\* Lines 151-152: the last MAX_NEWS_ITEMS of a longer list.
LastMax(items) ==
    IF Len(items) > MAX_NEWS_ITEMS
        THEN SubSeq(items, Len(items) - MAX_NEWS_ITEMS + 1, Len(items))
        ELSE items

\* Lines 141-155: the lock is taken; a duplicate returns and releases it;
\* otherwise the dict is appended, the list is cut, and save_news_to_file is
\* called with the lock held.
OmLocked(w) ==
    /\ Me(w).pc = "om_lock"
    /\ news.lock = Unlocked
    /\ IF IsDuplicate(news.items, Me(w).data)
        THEN news' = [news EXCEPT !.agent[w].pc = "run", !.agent[w].out = "duplicate"]
        ELSE news' = [news EXCEPT !.items = LastMax(Append(news.items, Me(w).data)),
                                  !.lock = w,
                                  !.agent[w].pc = "save", !.agent[w].ret = "on_message"]
    /\ NewsUnchanged

\* add_test_news (lines 332-345): the lock is taken, the test dict is
\* appended, and save_news_to_file is called with the lock held.
AddTestNews(c, s) ==
    /\ Me(c).pc = "idle"
    /\ news.lock = Unlocked
    /\ news' = [news EXCEPT !.items = Append(news.items, NewsItem(TRUE, TestId(s))),
                            !.lock = c,
                            !.agent[c].pc = "save", !.agent[c].ret = "add_test_news"]
    /\ NewsUnchanged

\* A call of save_news_to_file from outside the class (line 433).
SaveCall(c) ==
    /\ Me(c).pc = "idle"
    /\ news' = [news EXCEPT !.agent[c].pc = "save", !.agent[c].ret = "caller"]
    /\ NewsUnchanged

\* save_news_to_file (lines 72-79): `with cls._lock` waits until the lock
\* is free, whoever holds it; then the list is dumped and the lock is
\* released. The caller goes on: on_message and add_test_news leave their
\* own `with`, which releases the lock once more.
SaveNews(a) ==
    /\ Me(a).pc = "save"
    /\ news.lock = Unlocked
    /\ news' = [news EXCEPT !.file = NewsFileOf(news.items),
                            !.agent[a].pc = IF a \in Workers THEN "run" ELSE "idle",
                            !.agent[a].ret = ""]
    /\ NewsUnchanged

\* get_news_data (lines 327-329): the call, and the copy under the lock.
GetCall(c) ==
    /\ Me(c).pc = "idle"
    /\ news' = [news EXCEPT !.agent[c].pc = "get"]
    /\ NewsUnchanged

GetCopy(c) ==
    /\ Me(c).pc = "get"
    /\ news.lock = Unlocked
    /\ news' = [news EXCEPT !.agent[c].pc = "idle"]
    /\ NewsUnchanged

\* The step of a thread of the service.
NewsStep(a) ==
    \/ a \in Mains /\ SsCheck(a)
    \/ a \in Mains /\ SsCreate(a)
    \/ a \in Mains /\ SsStart(a)
    \/ a \in Mains /\ \E s \in Seconds : AddTestNews(a, s)
    \/ a \in Mains /\ SaveCall(a)
    \/ a \in Mains /\ GetCall(a)
    \/ a \in Mains /\ GetCopy(a)
    \/ a \in Workers /\ LoadRead(a)
    \/ a \in Workers /\ LoadAssign(a)
    \/ a \in Workers /\ \E msg \in Messages, ms \in Millis : Receive(a, msg, ms)
    \/ a \in Workers /\ OmLocked(a)
    \/ SaveNews(a)

InitNews ==
    /\ InitProgram(NoMovesFile)
    /\ raw_in = PyNone
    /\ parse_out = NotCalled
    /\ call = NoCall
    /\ diff_in = NoQuotes
    /\ diff_out = NotDiffed
    /\ mirror = NoMirror
    /\ consumer = NoConsumer
    /\ \E f \in NewsFiles : news = [NoNews EXCEPT !.file = f]

NextNews == \E a \in Agents : NewsStep(a)

SpecNews == InitNews /\ [][NextNews]_vars

\* ---------------------------------------------------------------- C36 ---
\* C36: handling a valid, non-duplicate news message terminates: on_message
\* (and add_test_news) appends the item, persists the list through
\* save_news_to_file and returns with the news lock released, so that later
\* on_message and get_news_data calls can take the lock. As a property of
\* every state: a thread that has appended and is at save_news_to_file can
\* take the step that saves and returns, and a thread waiting for the lock
\* in on_message or get_news_data can take it.
Appending == {"on_message", "add_test_news"}

C36_AppendSavesAndReleases ==
    /\ \A a \in Agents :
        (Me(a).pc = "save" /\ Me(a).ret \in Appending) => ENABLED SaveNews(a)
    /\ \A w \in Workers : Me(w).pc = "om_lock" => ENABLED OmLocked(w)
    /\ \A c \in Mains : Me(c).pc = "get" => ENABLED GetCopy(c)

\* ---------------------------------------------------------------- C37 ---
\* C37: after any sequence of on_message calls the news list holds no two
\* items with the same _id: a message whose _id is already in the list
\* leaves the list unchanged, and a message without _id is given one before
\* the check.
Ids(items) == {Get_id(items[i]) : i \in 1..Len(items)}

C37_NoTwoItemsOfOneId ==
    /\ [](Cardinality(Ids(news.items)) = Len(news.items))
    /\ [](\A w \in Workers : Me(w).pc = "om_lock" => Me(w).data.has_id)
    /\ [][\A w \in Workers :
            (Me(w).pc = "om_lock" /\ news'.agent[w].pc # "om_lock") =>
                IF Get_id(Me(w).data) \in Ids(news.items)
                    THEN news'.items = news.items /\ news'.agent[w].pc = "run"
                    ELSE /\ Len(news'.items) > 0
                         /\ news'.items[Len(news'.items)] = Me(w).data]_vars

\* One thread has had a message with the _id of a saved item, which left
\* the two saved items alone, and then a message with no _id, which is in
\* the list under the id made for it.
C37_DuplicateSkippedThenIdGiven ==
    \E w \in Workers :
        /\ Me(w).out = "duplicate"
        /\ Me(w).pc = "save"
        /\ \E ms \in Millis : news.items = Append(SavedNews(2), NewsItem(TRUE, NewsId(ms)))

\* ---------------------------------------------------------------- C38 ---
\* C38: the news list never holds more than MAX_NEWS_ITEMS items after an
\* operation that adds an item (on_message, add_test_news,
\* load_news_from_file); when a new item would exceed the bound, the oldest
\* items are dropped and the newest MAX_NEWS_ITEMS are kept in arrival order.
C38_AtMostMaxNews ==
    /\ [](Len(news.items) <= MAX_NEWS_ITEMS)
    /\ [][\A a \in Agents :
            (Me(a).pc # "save" /\ news'.agent[a].pc = "save" /\ Me(a)'.ret \in Appending
             /\ Len(news.items) = MAX_NEWS_ITEMS) =>
                /\ Len(news'.items) = MAX_NEWS_ITEMS
                /\ SubSeq(news'.items, 1, MAX_NEWS_ITEMS - 1) = Tail(news.items)]_vars

\* ---------------------------------------------------------------- C39 ---
\* C39: start_scanner is idempotent while the scanner runs: for any
\* interleaving of start_scanner calls from several threads, at most one
\* websocket connection thread is alive at a time, and a call made while one
\* is alive starts nothing.
AliveWorkers == {w \in Workers : IsAlive(w)}

C39_OneConnectionThread ==
    /\ [](Cardinality(AliveWorkers) <= 1)
    /\ [][AliveWorkers # {} => AliveWorkers' = AliveWorkers]_vars

====
